---- MODULE Spec2Model ----
(***************************************************************************)
(* torchsnapshot: Snapshot.take / Snapshot.async_take / Snapshot.restore   *)
(* and PendingSnapshot, as run by NumRanks cooperating ranks.              *)
(*                                                                         *)
(* Every rank runs the same program on its own app_state: it calls take    *)
(* or async_take (followed by wait) and then restore on the snapshot it    *)
(* obtained.  The ranks meet in the process-group collectives (barrier,    *)
(* all_gather_object, broadcast_object_list); the background threads of    *)
(* async_take meet in the store-based LinearBarrier.                       *)
(***************************************************************************)
EXTENDS Integers, Sequences, FiniteSets, TLC

\* ---------------------------------------------------------------- bounds
\* world size
NumRanks == 2
\* number of distinct Stateful component names
NumKeys == 2

Ranks == 0 .. (NumRanks - 1)
\* names of the Stateful components an app_state may register
Keys == 1 .. NumKeys
\* the name under which an app_state registers its RNGState
RngKey == 0
\* an RNG state is one of two values: the one the process starts with and
\* the one a side effect leaves behind
RngVals == {0, 1}
\* the value of a rank's Stateful components: as registered, or changed
Vals == {0, 1}

\* a second RNGState and a value that is not Stateful, as an app_state may
\* (wrongly) register them
OtherRngKey == -1
NonStatefulKey == -2

\* the snapshot locations a rank may propose
Paths == {"p0", "p1"}

\* the types of the leaf a Stateful's state_dict() flattens to
Types == {"Tensor", "ShardedTensor", "Primitive"}

\* glob patterns, as the path prefix they match: "**" and "<key>/**"
AllPattern == <<>>
KeyPattern(k) == <<k>>
Patterns == {AllPattern} \cup {KeyPattern(k) : k \in Keys}

\* Optional values: None is <<>>, Some(x) is <<x>>
None == <<>>
Some(x) == <<x>>

VARIABLES
    op,             \* the operation every rank invokes: "take" or "async_take"
    app_state,      \* app_state[r]: the keys of rank r's app_state, in insertion order
    app_val,        \* app_val[r]: the value held by rank r's Stateful components
    rng,            \* rng[r]: the RNG state of rank r's process
    pc,             \* pc[r]: position of rank r's main thread
    seq,            \* seq[r]: number of process-group collectives rank r has entered
    global_keys,    \* global_keys[r]: the list _gather_keys returned on rank r
    ki,             \* ki[r]: index into global_keys[r] of the key being walked
    nbarrier,       \* nbarrier[r]: barriers rank r has issued in the current key loop
    rng_state_dict, \* rng_state_dict[r]: the RNG state captured by _take_impl
    manifest,       \* manifest[r]: rank r's local manifest, a set of <<key, value>>
    metadata,       \* metadata[r]: the SnapshotMetadata _take_impl returned on rank r
    io,             \* io[r]: state of rank r's PendingIOWork
    storage_doc,    \* content of .snapshot_metadata at the snapshot path
    meta_writes,    \* ranks whose write of .snapshot_metadata was issued, in order
    resources,      \* resources[r]: the event loop / storage plugin rank r holds open
    tpc,            \* tpc[r]: position of rank r's background thread
    texc,           \* texc[r]: the exception raised in rank r's background thread
    exc_info,       \* exc_info[r]: PendingSnapshot.exc_info
    done,           \* done[r]: PendingSnapshot._done
    store,          \* the keys of the LinearBarrier in the distributed store
    snapshot_metadata, \* snapshot_metadata[r]: Snapshot._metadata of rank r's Snapshot
    rng_before,     \* rng_before[r]: the RNG state when rank r called take / async_take
    path_arg,       \* path_arg[r]: the path rank r passes to take / async_take
    replicated_arg, \* replicated_arg[r]: the glob patterns rank r passes as replicated
    ddp_keys,       \* ddp_keys[r]: the components of rank r that are DDP modules
    leaf_type,      \* leaf_type[r][k]: the type of the leaf of component k on rank r
    path,           \* path[r]: the coalesced path (the local `path` of take)
    coalesced_replicated, \* coalesced_replicated[r]: the agreed pattern set on rank r
    warnings,       \* warnings[r]: the divergence warnings rank r has logged
    replicated_paths, \* replicated_paths[r]: result of _calculate_replicated_entries
    storage_path,   \* storage_path[r]: the url rank r's storage plugin was opened at
    snapshot_path,  \* snapshot_path[r]: the path of rank r's Snapshot / PendingSnapshot
    read_reqs,      \* read_reqs[r]: the logical paths whose ReadReqs rank r executed
    metadata_read,  \* metadata_read[r]: rank r has read .snapshot_metadata from storage
    read_result,    \* read_result[r]: outcome of rank r's last read_object
    polled,         \* polled[r]: what rank r's last done() returned
    got_manifest    \* got_manifest[r]: the mapping get_manifest returned to rank r's caller

vars == <<op, app_state, app_val, rng, pc, seq, global_keys, ki, nbarrier,
          rng_state_dict, manifest, metadata, io, storage_doc, meta_writes,
          resources, tpc, texc, exc_info, done, store, snapshot_metadata,
          rng_before, path_arg, replicated_arg, ddp_keys, leaf_type, path,
          coalesced_replicated, warnings, replicated_paths, storage_path,
          snapshot_path, read_reqs, metadata_read, read_result, polled,
          got_manifest>>

\* groups used in UNCHANGED clauses
argVars == <<path_arg, replicated_arg, ddp_keys, leaf_type>>
inputVars == <<op, app_state, rng_before, argVars>>
coalesceVars == <<path, coalesced_replicated, warnings, replicated_paths,
                  storage_path, snapshot_path>>
readVars == <<read_reqs, metadata_read, read_result, polled, got_manifest>>
loopVars == <<global_keys, ki, nbarrier>>
threadVars == <<tpc, texc, exc_info, done, store>>
storageVars == <<storage_doc, meta_writes, snapshot_metadata>>

\* ------------------------------------------------------- pure functions

SeqToSet(s) == {s[i] : i \in DOMAIN s}

IsRNGState(k) == k \in {RngKey, OtherRngKey}

\* isinstance(value, Stateful) of the value registered under key k
IsStateful(k) == k # NonStatefulKey

\* fnmatch.fnmatch(path, pattern) for the logical path of the leaf of
\* component k: "**" matches every path, "<key>/**" the paths under <key>
fnmatch(k, pattern) == pattern = AllPattern \/ pattern = KeyPattern(k)

\* _infer_replicated: the patterns given, and unless "**" is among them
\* "<key>/**" for every component that is a DDP module
infer_replicated(replicated, s, ddp) ==
    IF AllPattern \in replicated THEN replicated
    ELSE replicated \cup {KeyPattern(k) : k \in {x \in ddp : \E i \in DOMAIN s : s[i] = x}}

\* _coalesce_replicated that takes the union of the ranks' pattern lists
coalesce_replicated_union(global_replicated) ==
    {p \in Patterns : \E q \in DOMAIN global_replicated : p \in global_replicated[q]}

\* _coalesce_replicated: set.intersection over the ranks' pattern lists
coalesce_replicated(global_replicated) ==
    {p \in Patterns : \A q \in DOMAIN global_replicated : p \in global_replicated[q]}

\* app_state.copy() with the RNGState item removed (what _pop_rng_state leaves)
RECURSIVE WithoutRng(_)
WithoutRng(s) ==
    IF s = <<>> THEN <<>>
    ELSE IF IsRNGState(Head(s)) THEN WithoutRng(Tail(s))
    ELSE <<Head(s)>> \o WithoutRng(Tail(s))

\* the keys of the RNGState items of an app_state
rng_state_items(s) == {k \in SeqToSet(s) : IsRNGState(k)}

\* itertools.chain.from_iterable over the per-rank lists, in rank order
RECURSIVE chain(_)
chain(lists) ==
    IF lists = <<>> THEN <<>> ELSE Head(lists) \o chain(Tail(lists))

Min(S) == CHOOSE x \in S : \A y \in S : x <= y

\* sorted(S) for a set S
RECURSIVE sorted(_)
sorted(S) ==
    IF S = {} THEN <<>>
    ELSE LET m == Min(S) IN <<m>> \o sorted(S \ {m})


\* _gather_keys that returns the chained lists as they are
gather_keys_chained(gathered_keys) == chain(gathered_keys)

\* _gather_keys: sorted(set(chain(gathered_keys)))
gather_keys(gathered_keys) == sorted(SeqToSet(chain(gathered_keys)))

\* all_gather_object of list(app_state.keys()): one list per rank, in rank order
GatheredKeys == [i \in 1 .. NumRanks |-> WithoutRng(app_state[i - 1])]

\* manifest.update(mnfst) for the entry of one key: a manifest is a set of
\* <<key, value>> pairs holding at most one pair per key
manifest_update(m, k, v) == {e \in m : e[1] # k} \cup {<<k, v>>}

\* consolidate_replicated_entries: a replicated path keeps one Entry, that
\* of the first rank that produced it
consolidate_replicated_entries(rank_to_entries) ==
    [q \in DOMAIN rank_to_entries |->
        {e \in rank_to_entries[q] :
            e[4] => ~\E o \in DOMAIN rank_to_entries :
                        o < q /\ \E x \in rank_to_entries[o] : x[1] = e[1] /\ x[4]}]

\* _gather_manifest: every rank's local manifest, consolidated and
\* namespaced by its rank: the global manifest is a set of
\* <<rank, path, value, type, replicated>> entries
gather_manifest(manifests) ==
    LET consolidated == consolidate_replicated_entries(manifests)
    IN UNION {{<<q, e[1], e[2], e[3], e[4]>> : e \in consolidated[q]} : q \in Ranks}

\* SnapshotMetadata(version, world_size, manifest)
SnapshotMetadata(m) == [world_size |-> NumRanks, manifest |-> m]

\* ------------------------------------------- process-group collectives

\* A collective entered by rank r completes once every rank has entered it:
\* the n-th collective of a rank matches the n-th collective of every other.
CollectiveComplete(r) == \A q \in Ranks : seq[q] >= seq[r]

EnterCollective(r) == seq' = [seq EXCEPT ![r] = @ + 1]

\* ------------------------------------------------------------ app states

\* every list of distinct keys over a set S
DistinctSeqs(S) ==
    UNION {{s \in [1 .. n -> S] : \A i, j \in 1 .. n : i # j => s[i] # s[j]} :
           n \in 0 .. Cardinality(S)}

\* every app_state: any Stateful components, at most one RNGState, any order
AppStates == DistinctSeqs(Keys \cup {RngKey})

\* the app_state of the two-component example: rank 0 registers every
\* component but the last, the other ranks register them all; the RNGState,
\* when registered, is registered first
ExampleAppStates(r) ==
    LET ks == [i \in 1 .. (IF r = 0 THEN NumKeys - 1 ELSE NumKeys) |-> i]
    IN {ks, <<RngKey>> \o ks}

\* the state every rank is in before it calls take / async_take
InitRest ==
    /\ app_val = [r \in Ranks |-> 0]
    /\ rng = [r \in Ranks |-> 0]
    /\ pc = [r \in Ranks |-> "start"]
    /\ seq = [r \in Ranks |-> 0]
    /\ global_keys = [r \in Ranks |-> <<>>]
    /\ ki = [r \in Ranks |-> 0]
    /\ nbarrier = [r \in Ranks |-> 0]
    /\ rng_state_dict = [r \in Ranks |-> None]
    /\ manifest = [r \in Ranks |-> {}]
    /\ metadata = [r \in Ranks |-> None]
    /\ io = [r \in Ranks |-> "none"]
    /\ storage_doc = None
    /\ meta_writes = <<>>
    /\ resources = [r \in Ranks |-> {}]
    /\ tpc = [r \in Ranks |-> "none"]
    /\ texc = [r \in Ranks |-> "None"]
    /\ exc_info = [r \in Ranks |-> "None"]
    /\ done = [r \in Ranks |-> FALSE]
    /\ store = [arrived |-> {}, released |-> FALSE, departed |-> {},
                depart_released |-> FALSE, error |-> FALSE]
    /\ snapshot_metadata = [r \in Ranks |-> None]
    /\ rng_before = rng
    /\ path = [r \in Ranks |-> None]
    /\ coalesced_replicated = [r \in Ranks |-> None]
    /\ warnings = [r \in Ranks |-> {}]
    /\ replicated_paths = [r \in Ranks |-> None]
    /\ storage_path = [r \in Ranks |-> None]
    /\ snapshot_path = [r \in Ranks |-> None]
    /\ read_reqs = [r \in Ranks |-> {}]
    /\ metadata_read = [r \in Ranks |-> FALSE]
    /\ read_result = [r \in Ranks |-> None]
    /\ polled = [r \in Ranks |-> None]
    /\ got_manifest = [r \in Ranks |-> None]

\* the arguments of the two-component example: every rank proposes the same
\* path and no replicated pattern, no component is a DDP module and every
\* leaf is a tensor
ExampleArgs ==
    /\ path_arg = [r \in Ranks |-> "p0"]
    /\ replicated_arg = [r \in Ranks |-> {}]
    /\ ddp_keys = [r \in Ranks |-> {}]
    /\ leaf_type = [r \in Ranks |-> [k \in Keys |-> "Tensor"]]

Init ==
    /\ op \in {"take", "async_take"}
    /\ app_state \in {f \in [Ranks -> AppStates] :
                        \A r \in Ranks : f[r] \in ExampleAppStates(r)}
    /\ ExampleArgs
    /\ InitRest

\* ------------------------------------------------- take and async_take

\* Snapshot.take / async_take up to the broadcast of the path:
\* _validate_app_state, a new event loop, broadcast_object_list
ValidateAppState(r) ==
    /\ pc[r] = "start"
    /\ rng_before' = [rng_before EXCEPT ![r] = rng[r]]
    /\ IF \E i \in DOMAIN app_state[r] : ~IsStateful(app_state[r][i])
       THEN /\ pc' = [pc EXCEPT ![r] = "raised"]
            /\ UNCHANGED <<resources, seq>>
       ELSE /\ resources' = [resources EXCEPT ![r] = {"event_loop"}]
            /\ EnterCollective(r)
            /\ pc' = [pc EXCEPT ![r] = "coalesce_path"]
    /\ UNCHANGED <<op, app_state, argVars, coalesceVars, readVars, app_val, rng,
                   loopVars, rng_state_dict, manifest, metadata, io, storageVars,
                   threadVars>>

\* CoalescePath that keeps the path the rank itself proposed
CoalescePath_OwnPath(r) ==
    /\ pc[r] = "coalesce_path"
    /\ CollectiveComplete(r)
    /\ path' = [path EXCEPT ![r] = Some(path_arg[r])]
    /\ warnings' = [warnings EXCEPT ![r] =
            IF path_arg[0] # path_arg[r] THEN @ \cup {"path"} ELSE @]
    /\ EnterCollective(r)
    /\ pc' = [pc EXCEPT ![r] = "coalesce_replicated"]
    /\ UNCHANGED <<inputVars, coalesced_replicated, replicated_paths, storage_path,
                   snapshot_path, readVars, app_val, rng, loopVars, rng_state_dict,
                   manifest, metadata, io, storageVars, resources, threadVars>>

\* _coalesce_path_and_replicated: the broadcast of rank 0's path returns,
\* then _infer_replicated and the all_gather_object of the patterns
CoalescePath(r) ==
    /\ pc[r] = "coalesce_path"
    /\ CollectiveComplete(r)
    /\ path' = [path EXCEPT ![r] = Some(path_arg[0])]
    /\ warnings' = [warnings EXCEPT ![r] =
            IF path_arg[0] # path_arg[r] THEN @ \cup {"path"} ELSE @]
    /\ EnterCollective(r)
    /\ pc' = [pc EXCEPT ![r] = "coalesce_replicated"]
    /\ UNCHANGED <<inputVars, coalesced_replicated, replicated_paths, storage_path,
                   snapshot_path, readVars, app_val, rng, loopVars, rng_state_dict,
                   manifest, metadata, io, storageVars, resources, threadVars>>

\* all_gather_object of the ranks' pattern lists (given plus inferred)
GlobalReplicated ==
    [q \in Ranks |-> infer_replicated(replicated_arg[q], app_state[q], ddp_keys[q])]

\* the all_gather_object of the patterns returns, _coalesce_replicated, and
\* the storage plugin is opened at the coalesced path
CoalesceReplicated(r) ==
    /\ pc[r] = "coalesce_replicated"
    /\ CollectiveComplete(r)
    /\ LET replicated == infer_replicated(replicated_arg[r], app_state[r], ddp_keys[r])
           coalesced == coalesce_replicated(GlobalReplicated)
       IN /\ coalesced_replicated' = [coalesced_replicated EXCEPT ![r] = Some(coalesced)]
          /\ warnings' = [warnings EXCEPT ![r] =
                IF replicated # coalesced THEN @ \cup {"replicated"} ELSE @]
    /\ resources' = [resources EXCEPT ![r] = @ \cup {"storage"}]
    /\ storage_path' = [storage_path EXCEPT ![r] = path[r]]
    /\ pc' = [pc EXCEPT ![r] = "take_impl"]
    /\ UNCHANGED <<inputVars, path, replicated_paths, snapshot_path, readVars,
                   app_val, rng, seq, loopVars, rng_state_dict, manifest, metadata,
                   io, storageVars, threadVars>>

\* PopRngState that deletes the RNGState from the caller's app_state
PopRngState_InPlace(r) ==
    /\ pc[r] = "take_impl"
    /\ IF Cardinality(rng_state_items(app_state[r])) > 1
       THEN /\ pc' = [pc EXCEPT ![r] = "raised"]
            /\ UNCHANGED <<rng_state_dict, manifest, seq, app_state>>
       ELSE /\ IF rng_state_items(app_state[r]) # {}
               THEN /\ rng_state_dict' = [rng_state_dict EXCEPT ![r] = Some(rng[r])]
                    /\ manifest' = [manifest EXCEPT ![r] =
                            manifest_update({}, RngKey, rng[r])]
               ELSE /\ rng_state_dict' = [rng_state_dict EXCEPT ![r] = None]
                    /\ manifest' = [manifest EXCEPT ![r] = {}]
            /\ app_state' = [app_state EXCEPT ![r] = WithoutRng(@)]
            /\ EnterCollective(r)
            /\ pc' = [pc EXCEPT ![r] = "gather_keys"]
    /\ UNCHANGED <<op, rng_before, argVars, coalesceVars, readVars, app_val, rng, loopVars, metadata, io, storageVars,
                   resources, threadVars>>

\* PopRngState that takes the RNGState it finds first and never raises
PopRngState_NoCheck(r) ==
    /\ pc[r] = "take_impl"
    /\ IF rng_state_items(app_state[r]) # {}
       THEN /\ rng_state_dict' = [rng_state_dict EXCEPT ![r] = Some(rng[r])]
            /\ manifest' = [manifest EXCEPT ![r] =
                    manifest_update({}, RngKey, rng[r])]
       ELSE /\ rng_state_dict' = [rng_state_dict EXCEPT ![r] = None]
            /\ manifest' = [manifest EXCEPT ![r] = {}]
    /\ EnterCollective(r)
    /\ pc' = [pc EXCEPT ![r] = "gather_keys"]
    /\ UNCHANGED <<inputVars, coalesceVars, readVars, app_val, rng, loopVars, metadata, io, storageVars,
                   resources, threadVars>>

\* _take_impl up to the all_gather_object of _gather_keys: the app_state is
\* copied, the RNGState popped and its state_dict() captured and flattened
PopRngState(r) ==
    /\ pc[r] = "take_impl"
    /\ IF Cardinality(rng_state_items(app_state[r])) > 1
       THEN /\ pc' = [pc EXCEPT ![r] = "raised"]
            /\ UNCHANGED <<rng_state_dict, manifest, seq>>
       ELSE /\ IF rng_state_items(app_state[r]) # {}
               THEN /\ rng_state_dict' = [rng_state_dict EXCEPT ![r] = Some(rng[r])]
                    /\ manifest' = [manifest EXCEPT ![r] =
                            manifest_update({}, RngKey, rng[r])]
               ELSE /\ rng_state_dict' = [rng_state_dict EXCEPT ![r] = None]
                    /\ manifest' = [manifest EXCEPT ![r] = {}]
            /\ EnterCollective(r)
            /\ pc' = [pc EXCEPT ![r] = "gather_keys"]
    /\ UNCHANGED <<inputVars, coalesceVars, readVars, app_val, rng, loopVars, metadata, io, storageVars,
                   resources, threadVars>>

\* _gather_keys returns the global key list; the walk starts at its first key
GatherKeys(r) ==
    /\ pc[r] = "gather_keys"
    /\ CollectiveComplete(r)
    /\ LET gk == gather_keys(GatheredKeys)
       IN /\ global_keys' = [global_keys EXCEPT ![r] = gk]
          /\ pc' = [pc EXCEPT ![r] = IF gk = <<>> THEN "rng_restore" ELSE "capture"]
    /\ ki' = [ki EXCEPT ![r] = 1]
    /\ nbarrier' = [nbarrier EXCEPT ![r] = 0]
    /\ UNCHANGED <<inputVars, coalesceVars, readVars, app_val, rng, seq, rng_state_dict, manifest,
                   metadata, io, storageVars, resources, threadVars>>


\* CaptureKey with the barrier inside the branch of the ranks that hold the
\* key: a rank that lacks the key moves on without a barrier
CaptureKey_BarrierIfHeld(r) ==
    /\ pc[r] = "capture"
    /\ LET key == global_keys[r][ki[r]]
       IN IF key \in SeqToSet(WithoutRng(app_state[r]))
          THEN /\ manifest' = [manifest EXCEPT ![r] = manifest_update(@, key, app_val[r])]
               /\ \E v \in RngVals : rng' = [rng EXCEPT ![r] = v]
               /\ EnterCollective(r)
               /\ nbarrier' = [nbarrier EXCEPT ![r] = @ + 1]
               /\ pc' = [pc EXCEPT ![r] = "key_barrier"]
               /\ UNCHANGED ki
          ELSE /\ ki' = [ki EXCEPT ![r] = @ + 1]
               /\ pc' = [pc EXCEPT ![r] =
                    IF ki[r] < Len(global_keys[r]) THEN "capture" ELSE "rng_restore"]
               /\ UNCHANGED <<manifest, rng, seq, nbarrier>>
    /\ UNCHANGED <<inputVars, coalesceVars, readVars, app_val, global_keys, rng_state_dict, metadata,
                   io, storageVars, resources, threadVars>>

\* one iteration of the loop over global_keys: state_dict() and flatten of
\* the key when this rank holds it (state_dict() may change the RNG state),
\* then the rank enters pg_wrapper.barrier()
CaptureKey(r) ==
    /\ pc[r] = "capture"
    /\ LET key == global_keys[r][ki[r]]
       IN IF key \in SeqToSet(WithoutRng(app_state[r]))
          THEN /\ manifest' = [manifest EXCEPT ![r] = manifest_update(@, key, app_val[r])]
               /\ \E v \in RngVals : rng' = [rng EXCEPT ![r] = v]
          ELSE UNCHANGED <<manifest, rng>>
    /\ EnterCollective(r)
    /\ nbarrier' = [nbarrier EXCEPT ![r] = @ + 1]
    /\ pc' = [pc EXCEPT ![r] = "key_barrier"]
    /\ UNCHANGED <<inputVars, coalesceVars, readVars, app_val, global_keys, ki, rng_state_dict, metadata,
                   io, storageVars, resources, threadVars>>

\* the barrier after a key returns; the loop moves to the next key or ends
KeyBarrier(r) ==
    /\ pc[r] = "key_barrier"
    /\ CollectiveComplete(r)
    /\ ki' = [ki EXCEPT ![r] = @ + 1]
    /\ pc' = [pc EXCEPT ![r] =
                IF ki[r] < Len(global_keys[r]) THEN "capture" ELSE "rng_restore"]
    /\ UNCHANGED <<inputVars, coalesceVars, readVars, app_val, rng, seq, global_keys, nbarrier,
                   rng_state_dict, manifest, metadata, io, storageVars, resources,
                   threadVars>>


\* the type of the leaf that component k of rank r flattens to; the state of
\* an RNGState is a tensor
LeafType(r, k) == IF IsRNGState(k) THEN "Tensor" ELSE leaf_type[r][k]

\* _calculate_replicated_entries, the loop over flattened: the paths of rank
\* r that match one of the agreed patterns and whose value is not sharded
local_replicated_paths(r) ==
    {e[1] : e \in {x \in manifest[r] :
        /\ \E pat \in coalesced_replicated[r][1] : fnmatch(x[1], pat)
        /\ LeafType(r, x[1]) # "ShardedTensor"}}

\* _calculate_replicated_entries on rank 0 that keeps every path of its own
filter_replicated_paths_unfiltered(own, obj_list) == own

\* _calculate_replicated_entries on rank 0: of its own paths, those that
\* every rank of the world has gathered
filter_replicated_paths(own, obj_list) ==
    {k \in own : Cardinality({q \in DOMAIN obj_list : k \in obj_list[q]}) = NumRanks}

\* RestoreRng that does not load the captured RNG state back
RestoreRng_NotLoaded(r) ==
    /\ pc[r] = "rng_restore"
    /\ replicated_paths' = [replicated_paths EXCEPT ![r] = Some(local_replicated_paths(r))]
    /\ EnterCollective(r)
    /\ pc' = [pc EXCEPT ![r] = "calc_replicated"]
    /\ UNCHANGED <<inputVars, path, coalesced_replicated, warnings, storage_path, snapshot_path, readVars, app_val, rng, loopVars, rng_state_dict, manifest,
                   metadata, io, storageVars, resources, threadVars>>

\* after the loop the captured RNG state is loaded back into the RNGState;
\* _calculate_replicated_entries then enters its all_gather_object
RestoreRng(r) ==
    /\ pc[r] = "rng_restore"
    /\ IF rng_state_dict[r] # None
       THEN rng' = [rng EXCEPT ![r] = rng_state_dict[r][1]]
       ELSE UNCHANGED rng
    /\ replicated_paths' = [replicated_paths EXCEPT ![r] = Some(local_replicated_paths(r))]
    /\ EnterCollective(r)
    /\ pc' = [pc EXCEPT ![r] = "calc_replicated"]
    /\ UNCHANGED <<inputVars, path, coalesced_replicated, warnings, storage_path, snapshot_path, readVars, app_val, loopVars, rng_state_dict, manifest,
                   metadata, io, storageVars, resources, threadVars>>

\* _calculate_replicated_entries: the all_gather_object returns, rank 0
\* filters the paths, every rank enters broadcast_object_list
CalculateReplicatedEntries(r) ==
    /\ pc[r] = "calc_replicated"
    /\ CollectiveComplete(r)
    /\ IF r = 0
       THEN replicated_paths' = [replicated_paths EXCEPT ![r] =
                Some(filter_replicated_paths(replicated_paths[r][1],
                        [q \in Ranks |-> replicated_paths[q][1]]))]
       ELSE UNCHANGED replicated_paths
    /\ EnterCollective(r)
    /\ pc' = [pc EXCEPT ![r] = "calc_replicated_bcast"]
    /\ UNCHANGED <<inputVars, path, coalesced_replicated, warnings, storage_path, snapshot_path, readVars, app_val, rng, loopVars, rng_state_dict, manifest,
                   metadata, io, storageVars, resources, threadVars>>

\* prepare_write: the Entry of a flattened <<path, value>>, with the type of
\* the value and whether the path is replicated
prepare_write(r, e, replicated) == <<e[1], e[2], LeafType(r, e[1]), replicated>>

\* the broadcast returns; prepare_write, partition and batching of the write
\* requests; _gather_manifest enters its all_gather_object
PrepareWrites(r) ==
    /\ pc[r] = "calc_replicated_bcast"
    /\ CollectiveComplete(r)
    /\ replicated_paths' = [replicated_paths EXCEPT ![r] = replicated_paths[0]]
    /\ manifest' = [manifest EXCEPT ![r] =
            {prepare_write(r, e, e[1] \in replicated_paths[0][1]) : e \in manifest[r]}]
    /\ EnterCollective(r)
    /\ pc' = [pc EXCEPT ![r] = "gather_manifest"]
    /\ UNCHANGED <<inputVars, path, coalesced_replicated, warnings, storage_path,
                   snapshot_path, readVars, app_val, rng, loopVars, rng_state_dict,
                   metadata, io, storageVars, resources, threadVars>>

\* _gather_manifest returns the global manifest, the write requests are
\* scheduled and _take_impl returns (pending_io_work, metadata)
GatherManifest(r) ==
    /\ pc[r] = "gather_manifest"
    /\ CollectiveComplete(r)
    /\ metadata' = [metadata EXCEPT ![r] = Some(SnapshotMetadata(gather_manifest(manifest)))]
    /\ io' = [io EXCEPT ![r] = "pending"]
    /\ pc' = [pc EXCEPT ![r] = IF op = "take" THEN "sync_complete" ELSE "pending_snapshot"]
    /\ UNCHANGED <<inputVars, coalesceVars, readVars, app_val, rng, seq, loopVars, rng_state_dict,
                   manifest, storageVars, resources, threadVars>>

\* Snapshot._write_snapshot_metadata: the document written to .snapshot_metadata
write_snapshot_metadata(md) == md

\* take: pending_io_work.sync_complete returns and the rank enters the barrier
SyncComplete(r) ==
    /\ pc[r] = "sync_complete"
    /\ io' = [io EXCEPT ![r] = "ok"]
    /\ EnterCollective(r)
    /\ pc' = [pc EXCEPT ![r] = "commit_barrier"]
    /\ UNCHANGED <<inputVars, coalesceVars, readVars, app_val, rng, loopVars, rng_state_dict, manifest,
                   metadata, storageVars, resources, threadVars>>

\* take: pending_io_work.sync_complete raises; take propagates the exception
SyncCompleteRaises(r) ==
    /\ pc[r] = "sync_complete"
    /\ io' = [io EXCEPT ![r] = "failed"]
    /\ pc' = [pc EXCEPT ![r] = "raised"]
    /\ UNCHANGED <<inputVars, coalesceVars, readVars, app_val, rng, seq, loopVars, rng_state_dict,
                   manifest, metadata, storageVars, resources, threadVars>>


\* CommitBarrier without the barrier: every rank goes on as soon as its own
\* sync_complete has returned
CommitBarrier_NoBarrier(r) ==
    /\ pc[r] = "commit_barrier"
    /\ IF r = 0
       THEN /\ pc' = [pc EXCEPT ![r] = "write_metadata"]
            /\ UNCHANGED <<resources, snapshot_metadata, snapshot_path>>
       ELSE /\ pc' = [pc EXCEPT ![r] = "returned"]
            /\ resources' = [resources EXCEPT ![r] = {}]
            /\ snapshot_metadata' = [snapshot_metadata EXCEPT ![r] = metadata[r]]
            /\ snapshot_path' = [snapshot_path EXCEPT ![r] = path[r]]
    /\ UNCHANGED <<inputVars, path, coalesced_replicated, warnings, replicated_paths, storage_path, readVars, app_val, rng, seq, loopVars, rng_state_dict,
                   manifest, metadata, io, storage_doc, meta_writes, threadVars>>

\* CommitBarrier after which every rank goes on to write the metadata
CommitBarrier_AllWrite(r) ==
    /\ pc[r] = "commit_barrier"
    /\ CollectiveComplete(r)
    /\ pc' = [pc EXCEPT ![r] = "write_metadata"]
    /\ UNCHANGED <<inputVars, coalesceVars, readVars, app_val, rng, seq, loopVars, rng_state_dict,
                   manifest, metadata, io, storage_doc, meta_writes, resources,
                   snapshot_metadata, threadVars>>

\* take: the barrier returns; rank 0 goes on to write the metadata, every
\* other rank closes storage and event loop and returns the Snapshot
CommitBarrier(r) ==
    /\ pc[r] = "commit_barrier"
    /\ CollectiveComplete(r)
    /\ IF r = 0
       THEN /\ pc' = [pc EXCEPT ![r] = "write_metadata"]
            /\ UNCHANGED <<resources, snapshot_metadata, snapshot_path>>
       ELSE /\ pc' = [pc EXCEPT ![r] = "returned"]
            /\ resources' = [resources EXCEPT ![r] = {}]
            /\ snapshot_metadata' = [snapshot_metadata EXCEPT ![r] = metadata[r]]
            /\ snapshot_path' = [snapshot_path EXCEPT ![r] = path[r]]
    /\ UNCHANGED <<inputVars, path, coalesced_replicated, warnings, replicated_paths, storage_path, readVars, app_val, rng, seq, loopVars, rng_state_dict,
                   manifest, metadata, io, storage_doc, meta_writes, threadVars>>

\* take on rank 0: the metadata is written, storage and event loop are
\* closed and the Snapshot is returned
WriteMetadata(r) ==
    /\ pc[r] = "write_metadata"
    /\ storage_doc' = write_snapshot_metadata(metadata[r])
    /\ meta_writes' = Append(meta_writes, r)
    /\ resources' = [resources EXCEPT ![r] = {}]
    /\ snapshot_metadata' = [snapshot_metadata EXCEPT ![r] = metadata[r]]
    /\ snapshot_path' = [snapshot_path EXCEPT ![r] = path[r]]
    /\ pc' = [pc EXCEPT ![r] = "returned"]
    /\ UNCHANGED <<inputVars, path, coalesced_replicated, warnings, replicated_paths, storage_path, readVars, app_val, rng, seq, loopVars, rng_state_dict,
                   manifest, metadata, io, threadVars>>

\* take on rank 0: the write of the metadata raises; take propagates it
WriteMetadataRaises(r) ==
    /\ pc[r] = "write_metadata"
    /\ meta_writes' = Append(meta_writes, r)
    /\ pc' = [pc EXCEPT ![r] = "raised"]
    /\ UNCHANGED <<inputVars, coalesceVars, readVars, app_val, rng, seq, loopVars, rng_state_dict,
                   manifest, metadata, io, storage_doc, snapshot_metadata,
                   resources, threadVars>>

\* ---------------------------------------------------- LinearBarrier

LeaderRank == 0

\* arrive: the rank publishes its arrival key
ArrivePublish(st, r) == [st EXCEPT !.arrived = @ \cup {r}]

\* arrive returns: the leader has observed every rank's arrival key and
\* publishes the release signal; another rank has observed the release
ArriveCanReturn(st, r) ==
    IF r = LeaderRank THEN st.arrived = Ranks ELSE st.released

ArriveReturn(st, r) ==
    IF r = LeaderRank THEN [st EXCEPT !.released = TRUE] ELSE st

\* depart: the symmetric handshake on the departure keys
DepartPublish(st, r) == [st EXCEPT !.departed = @ \cup {r}]

DepartCanReturn(st, r) ==
    IF r = LeaderRank THEN st.departed = Ranks ELSE st.depart_released

DepartReturn(st, r) ==
    IF r = LeaderRank THEN [st EXCEPT !.depart_released = TRUE] ELSE st

\* report_error publishes the error key; a waiter that observes it fails
ReportError(st) == [st EXCEPT !.error = TRUE]

ErrorObserved(st) == st.error

\* ------------------------------------------------------ PendingSnapshot


\* PendingSnapshotInit that creates the thread without starting it
PendingSnapshotInit_NotStarted(r) ==
    /\ pc[r] = "pending_snapshot"
    /\ pc' = [pc EXCEPT ![r] = "pending"]
    /\ exc_info' = [exc_info EXCEPT ![r] = "None"]
    /\ done' = [done EXCEPT ![r] = FALSE]
    /\ snapshot_path' = [snapshot_path EXCEPT ![r] = path[r]]
    /\ UNCHANGED <<inputVars, path, coalesced_replicated, warnings, replicated_paths, storage_path, readVars, app_val, rng, seq, loopVars, rng_state_dict,
                   manifest, metadata, io, storageVars, resources, tpc, texc, store>>

\* PendingSnapshot.__init__: the background thread is started and
\* async_take returns the handle
PendingSnapshotInit(r) ==
    /\ pc[r] = "pending_snapshot"
    /\ pc' = [pc EXCEPT ![r] = "pending"]
    /\ tpc' = [tpc EXCEPT ![r] = "sync_complete"]
    /\ exc_info' = [exc_info EXCEPT ![r] = "None"]
    /\ done' = [done EXCEPT ![r] = FALSE]
    /\ snapshot_path' = [snapshot_path EXCEPT ![r] = path[r]]
    /\ UNCHANGED <<inputVars, path, coalesced_replicated, warnings, replicated_paths, storage_path, readVars, app_val, rng, seq, loopVars, rng_state_dict,
                   manifest, metadata, io, storageVars, resources, texc, store>>


\* CompleteSyncComplete with the metadata write of rank 0 placed before arrive
CompleteSyncComplete_WriteFirst(r) ==
    /\ tpc[r] = "sync_complete"
    /\ io' = [io EXCEPT ![r] = "ok"]
    /\ IF r = 0
       THEN /\ tpc' = [tpc EXCEPT ![r] = "write_metadata"]
            /\ store' = ArriveReturn(ArrivePublish(store, r), r)
       ELSE /\ tpc' = [tpc EXCEPT ![r] = "arrive"]
            /\ store' = ArrivePublish(store, r)
    /\ UNCHANGED <<inputVars, coalesceVars, readVars, app_val, rng, pc, seq, loopVars, rng_state_dict,
                   manifest, metadata, storageVars, resources, texc, exc_info, done>>

\* _complete_snapshot: sync_complete returns and the thread enters arrive
CompleteSyncComplete(r) ==
    /\ tpc[r] = "sync_complete"
    /\ io' = [io EXCEPT ![r] = "ok"]
    /\ store' = ArrivePublish(store, r)
    /\ tpc' = [tpc EXCEPT ![r] = "arrive"]
    /\ UNCHANGED <<inputVars, coalesceVars, readVars, app_val, rng, pc, seq, loopVars, rng_state_dict,
                   manifest, metadata, storageVars, resources, texc, exc_info, done>>


\* CompleteSyncCompleteRaises with the failure of the write I/O dropped: the
\* thread goes on to arrive as if sync_complete had returned
CompleteSyncCompleteRaises_Dropped(r) ==
    /\ tpc[r] = "sync_complete"
    /\ io' = [io EXCEPT ![r] = "failed"]
    /\ store' = ArrivePublish(store, r)
    /\ tpc' = [tpc EXCEPT ![r] = "arrive"]
    /\ UNCHANGED <<inputVars, coalesceVars, readVars, app_val, rng, pc, seq, loopVars, rng_state_dict,
                   manifest, metadata, storageVars, resources, texc, exc_info, done>>

\* _complete_snapshot: sync_complete raises
CompleteSyncCompleteRaises(r) ==
    /\ tpc[r] = "sync_complete"
    /\ io' = [io EXCEPT ![r] = "failed"]
    /\ texc' = [texc EXCEPT ![r] = "StorageIOError"]
    /\ tpc' = [tpc EXCEPT ![r] = "except"]
    /\ UNCHANGED <<inputVars, coalesceVars, readVars, app_val, rng, pc, seq, loopVars, rng_state_dict,
                   manifest, metadata, storageVars, resources, exc_info, done, store>>

\* CompleteArrive that also enters a process-group barrier
CompleteArrive_PgBarrier(r) ==
    /\ tpc[r] = "arrive"
    /\ ArriveCanReturn(store, r)
    /\ EnterCollective(r)
    /\ IF r = 0
       THEN /\ store' = ArriveReturn(store, r)
            /\ tpc' = [tpc EXCEPT ![r] = "write_metadata"]
       ELSE /\ store' = DepartPublish(ArriveReturn(store, r), r)
            /\ tpc' = [tpc EXCEPT ![r] = "depart"]
    /\ UNCHANGED <<inputVars, coalesceVars, readVars, app_val, rng, pc, loopVars, rng_state_dict,
                   manifest, metadata, io, storageVars, resources, texc, exc_info,
                   done>>

\* _complete_snapshot: arrive returns; rank 0 goes on to write the metadata,
\* every other rank enters depart
CompleteArrive(r) ==
    /\ tpc[r] = "arrive"
    /\ ArriveCanReturn(store, r)
    /\ IF r = 0
       THEN /\ store' = ArriveReturn(store, r)
            /\ tpc' = [tpc EXCEPT ![r] = "write_metadata"]
       ELSE /\ store' = DepartPublish(ArriveReturn(store, r), r)
            /\ tpc' = [tpc EXCEPT ![r] = "depart"]
    /\ UNCHANGED <<inputVars, coalesceVars, readVars, app_val, rng, pc, seq, loopVars, rng_state_dict,
                   manifest, metadata, io, storageVars, resources, texc, exc_info,
                   done>>


\* CompleteWriteMetadata that builds the document from the app state as it
\* is when the thread writes, not from the metadata handed to the thread
CompleteWriteMetadata_Live(r) ==
    /\ tpc[r] = "write_metadata"
    /\ storage_doc' = Some(SnapshotMetadata(
            {<<e[1], e[2], IF e[2] = RngKey THEN e[3] ELSE app_val[e[1]], e[4], e[5]>> :
                e \in metadata[r][1].manifest}))
    /\ meta_writes' = Append(meta_writes, r)
    /\ store' = DepartPublish(store, r)
    /\ tpc' = [tpc EXCEPT ![r] = "depart"]
    /\ UNCHANGED <<inputVars, coalesceVars, readVars, app_val, rng, pc, seq, loopVars, rng_state_dict,
                   manifest, metadata, io, snapshot_metadata, resources, texc,
                   exc_info, done>>

\* _complete_snapshot on rank 0: the metadata is written, then depart is entered
CompleteWriteMetadata(r) ==
    /\ tpc[r] = "write_metadata"
    /\ storage_doc' = write_snapshot_metadata(metadata[r])
    /\ meta_writes' = Append(meta_writes, r)
    /\ store' = DepartPublish(store, r)
    /\ tpc' = [tpc EXCEPT ![r] = "depart"]
    /\ UNCHANGED <<inputVars, coalesceVars, readVars, app_val, rng, pc, seq, loopVars, rng_state_dict,
                   manifest, metadata, io, snapshot_metadata, resources, texc,
                   exc_info, done>>

\* _complete_snapshot on rank 0: the write of the metadata raises
CompleteWriteMetadataRaises(r) ==
    /\ tpc[r] = "write_metadata"
    /\ meta_writes' = Append(meta_writes, r)
    /\ texc' = [texc EXCEPT ![r] = "MetadataWriteError"]
    /\ tpc' = [tpc EXCEPT ![r] = "except"]
    /\ UNCHANGED <<inputVars, coalesceVars, readVars, app_val, rng, pc, seq, loopVars, rng_state_dict,
                   manifest, metadata, io, storage_doc, snapshot_metadata,
                   resources, exc_info, done, store>>


\* CompleteDepart that returns without waiting for the other ranks
CompleteDepart_NoWait(r) ==
    /\ tpc[r] = "depart"
    /\ store' = DepartReturn(store, r)
    /\ tpc' = [tpc EXCEPT ![r] = "finally"]
    /\ UNCHANGED <<inputVars, coalesceVars, readVars, app_val, rng, pc, seq, loopVars, rng_state_dict,
                   manifest, metadata, io, storageVars, resources, texc, exc_info,
                   done>>

\* _complete_snapshot: depart returns
CompleteDepart(r) ==
    /\ tpc[r] = "depart"
    /\ DepartCanReturn(store, r)
    /\ store' = DepartReturn(store, r)
    /\ tpc' = [tpc EXCEPT ![r] = "finally"]
    /\ UNCHANGED <<inputVars, coalesceVars, readVars, app_val, rng, pc, seq, loopVars, rng_state_dict,
                   manifest, metadata, io, storageVars, resources, texc, exc_info,
                   done>>

\* arrive or depart raises: the deadline passed, or the error key was observed
CompleteBarrierTimeout(r) ==
    /\ tpc[r] \in {"arrive", "depart"}
    /\ texc' = [texc EXCEPT ![r] = "BarrierTimeout"]
    /\ tpc' = [tpc EXCEPT ![r] = "except"]
    /\ UNCHANGED <<inputVars, coalesceVars, readVars, app_val, rng, pc, seq, loopVars, rng_state_dict,
                   manifest, metadata, io, storageVars, resources, exc_info, done,
                   store>>

CompleteBarrierAborted(r) ==
    /\ tpc[r] \in {"arrive", "depart"}
    /\ ErrorObserved(store)
    /\ texc' = [texc EXCEPT ![r] = "BarrierAborted"]
    /\ tpc' = [tpc EXCEPT ![r] = "except"]
    /\ UNCHANGED <<inputVars, coalesceVars, readVars, app_val, rng, pc, seq, loopVars, rng_state_dict,
                   manifest, metadata, io, storageVars, resources, exc_info, done,
                   store>>



\* CompleteExcept that records exc_info but does not call report_error
CompleteExcept_NotReported(r) ==
    /\ tpc[r] = "except"
    /\ exc_info' = [exc_info EXCEPT ![r] = texc[r]]
    /\ tpc' = [tpc EXCEPT ![r] = "finally"]
    /\ UNCHANGED <<inputVars, coalesceVars, readVars, app_val, rng, pc, seq, loopVars, rng_state_dict,
                   manifest, metadata, io, storageVars, resources, texc, done,
                   store>>

\* CompleteExcept that reports the error but does not record exc_info
CompleteExcept_NotRecorded(r) ==
    /\ tpc[r] = "except"
    /\ store' = ReportError(store)
    /\ tpc' = [tpc EXCEPT ![r] = "finally"]
    /\ UNCHANGED <<inputVars, coalesceVars, readVars, app_val, rng, pc, seq, loopVars, rng_state_dict,
                   manifest, metadata, io, storageVars, resources, texc, exc_info,
                   done>>

\* _complete_snapshot, except clause: report_error, exc_info is recorded
CompleteExcept(r) ==
    /\ tpc[r] = "except"
    /\ store' = ReportError(store)
    /\ exc_info' = [exc_info EXCEPT ![r] = texc[r]]
    /\ tpc' = [tpc EXCEPT ![r] = "finally"]
    /\ UNCHANGED <<inputVars, coalesceVars, readVars, app_val, rng, pc, seq, loopVars, rng_state_dict,
                   manifest, metadata, io, storageVars, resources, texc, done>>

\* CompleteFinally that sets _done and leaves storage and event loop open
CompleteFinally_DoneOnly(r) ==
    /\ tpc[r] = "finally"
    /\ done' = [done EXCEPT ![r] = TRUE]
    /\ tpc' = [tpc EXCEPT ![r] = "finished"]
    /\ UNCHANGED <<inputVars, coalesceVars, readVars, app_val, rng, pc, seq, loopVars, rng_state_dict,
                   manifest, metadata, io, storageVars, resources, texc, exc_info, store>>

\* _complete_snapshot, finally clause and the last statement: storage and
\* event loop are closed, _done is set and the thread ends
CompleteFinally(r) ==
    /\ tpc[r] = "finally"
    /\ resources' = [resources EXCEPT ![r] = {}]
    /\ done' = [done EXCEPT ![r] = TRUE]
    /\ tpc' = [tpc EXCEPT ![r] = "finished"]
    /\ UNCHANGED <<inputVars, coalesceVars, readVars, app_val, rng, pc, seq, loopVars, rng_state_dict,
                   manifest, metadata, io, storageVars, texc, exc_info, store>>

\* PendingSnapshot.wait: joins the thread, then raises when exc_info is set
\* and returns a Snapshot otherwise
Wait(r) ==
    /\ pc[r] = "pending"
    /\ tpc[r] = "finished"
    /\ pc' = [pc EXCEPT ![r] =
                IF exc_info[r] # "None" THEN "wait_raised" ELSE "wait_returned"]
    /\ UNCHANGED <<inputVars, coalesceVars, readVars, app_val, rng, seq, loopVars, rng_state_dict,
                   manifest, metadata, io, storageVars, resources, threadVars>>

\* the caller changes its app state after take / async_take has returned
MutateAppState(r) ==
    /\ pc[r] \in {"pending", "returned", "wait_returned"}
    /\ \E v \in Vals \ {app_val[r]} : app_val' = [app_val EXCEPT ![r] = v]
    /\ UNCHANGED <<inputVars, coalesceVars, readVars, rng, pc, seq, loopVars, rng_state_dict, manifest,
                   metadata, io, storageVars, resources, threadVars>>

NextAsync ==
    \E r \in Ranks :
        \/ PendingSnapshotInit(r)
        \/ CompleteSyncComplete(r)
        \/ CompleteSyncCompleteRaises(r)
        \/ CompleteArrive(r)
        \/ CompleteWriteMetadata(r)
        \/ CompleteWriteMetadataRaises(r)
        \/ CompleteDepart(r)
        \/ CompleteBarrierTimeout(r)
        \/ CompleteBarrierAborted(r)
        \/ CompleteExcept(r)
        \/ CompleteFinally(r)
        \/ Wait(r)
        \/ MutateAppState(r)

\* ------------------------------------------------------------- restore

\* get_manifest_for_rank: the entries of the global manifest that rank r
\* sees, as <<path, value, type, replicated, owning rank>>: its own entries,
\* every replicated entry and every shard of a sharded entry
get_manifest_for_rank(md, r) ==
    {<<e[2], e[3], e[4], e[5], e[1]>> :
        e \in {x \in md.manifest : x[1] = r \/ x[5] \/ x[4] = "ShardedTensor"}}

\* the value the projected manifest m holds for path k, as rank r reads it:
\* the entry rank r owns when there is one, else that of the first owner
EntryValue(m, k, r) ==
    IF \E e \in m : e[1] = k /\ e[5] = r
    THEN (CHOOSE e \in m : e[1] = k /\ e[5] = r)[2]
    ELSE (CHOOSE e \in m : e[1] = k /\ \A x \in m : x[1] = k => e[5] <= x[5])[2]

\* the paths of a projected manifest that prepare_read makes ReadReqs for:
\* a primitive entry holds its value and has none
ReadReqPaths(m) == {e[1] : e \in {x \in m : x[3] # "Primitive"}}

\* Snapshot.restore up to the all_gather_object of _gather_keys:
\* _validate_app_state, event loop and storage are opened, the app_state is
\* copied and the RNGState popped
Restore(r) ==
    /\ pc[r] \in {"returned", "wait_returned", "constructed"}
    /\ IF \E i \in DOMAIN app_state[r] : ~IsStateful(app_state[r][i])
       THEN /\ pc' = [pc EXCEPT ![r] = "raised"]
            /\ UNCHANGED <<resources, storage_path, seq>>
       ELSE /\ resources' = [resources EXCEPT ![r] = {"event_loop", "storage"}]
            /\ storage_path' = [storage_path EXCEPT ![r] = snapshot_path[r]]
            /\ IF Cardinality(rng_state_items(app_state[r])) > 1
               THEN /\ pc' = [pc EXCEPT ![r] = "raised"]
                    /\ UNCHANGED seq
               ELSE /\ EnterCollective(r)
                    /\ pc' = [pc EXCEPT ![r] = "restore_gather_keys"]
    /\ UNCHANGED <<inputVars, path, coalesced_replicated, warnings,
                   replicated_paths, snapshot_path, readVars, app_val, rng,
                   loopVars, rng_state_dict, manifest, metadata, io, storageVars,
                   threadVars>>

\* restore: _gather_keys returns the global key list
RestoreGatherKeys(r) ==
    /\ pc[r] = "restore_gather_keys"
    /\ CollectiveComplete(r)
    /\ LET gk == gather_keys(GatheredKeys)
       IN /\ global_keys' = [global_keys EXCEPT ![r] = gk]
          /\ pc' = [pc EXCEPT ![r] = IF gk = <<>> THEN "restore_rng" ELSE "load"]
    /\ ki' = [ki EXCEPT ![r] = 1]
    /\ nbarrier' = [nbarrier EXCEPT ![r] = 0]
    /\ UNCHANGED <<inputVars, coalesceVars, readVars, app_val, rng, seq, rng_state_dict, manifest,
                   metadata, io, storageVars, resources, threadVars>>

\* Snapshot.metadata: the cached metadata, read from .snapshot_metadata
\* when the Snapshot holds none
MetadataProperty(r) ==
    IF snapshot_metadata[r] # None THEN snapshot_metadata[r] ELSE storage_doc

\* load_stateful that projects the manifest for rank 0 on every rank
load_stateful_rank0(r, key) ==
    IF MetadataProperty(r) = None
    THEN [raised |-> TRUE, read |-> {}, value |-> 0]
    ELSE LET m == get_manifest_for_rank(MetadataProperty(r)[1], 0)
         IN IF \E e \in m : e[1] = key
            THEN [raised |-> FALSE, read |-> ReadReqPaths(m),
                  value |-> EntryValue(m, key, 0)]
            ELSE [raised |-> TRUE, read |-> ReadReqPaths(m), value |-> 0]

\* _load_stateful of component key on rank r: the metadata is read when the
\* Snapshot holds none, every entry of the projected manifest is read, and
\* the state of the component is loaded; it raises when the metadata
\* document or the component's entry is missing
load_stateful(r, key) ==
    IF MetadataProperty(r) = None
    THEN [raised |-> TRUE, read |-> {}, value |-> 0]
    ELSE LET m == get_manifest_for_rank(MetadataProperty(r)[1], r)
         IN IF \E e \in m : e[1] = key
            THEN [raised |-> FALSE, read |-> ReadReqPaths(m),
                  value |-> EntryValue(m, key, r)]
            ELSE [raised |-> TRUE, read |-> ReadReqPaths(m), value |-> 0]

\* one iteration of restore's loop: _load_stateful of the key when this rank
\* holds it (load_state_dict() may change the RNG state), then the rank
\* enters pg_wrapper.barrier()
LoadStateful(r) ==
    /\ pc[r] = "load"
    /\ LET key == global_keys[r][ki[r]]
           held == key \in SeqToSet(WithoutRng(app_state[r]))
           res == load_stateful(r, key)
       IN /\ IF held
             THEN /\ snapshot_metadata' =
                        [snapshot_metadata EXCEPT ![r] = MetadataProperty(r)]
                  /\ metadata_read' = [metadata_read EXCEPT ![r] =
                        @ \/ snapshot_metadata[r] = None]
                  /\ read_reqs' = [read_reqs EXCEPT ![r] = @ \cup res.read]
             ELSE UNCHANGED <<snapshot_metadata, metadata_read, read_reqs>>
          /\ IF held /\ res.raised
             THEN /\ pc' = [pc EXCEPT ![r] = "raised"]
                  /\ UNCHANGED <<app_val, rng, seq, nbarrier>>
             ELSE /\ IF held
                     THEN /\ app_val' = [app_val EXCEPT ![r] = res.value]
                          /\ \E v \in RngVals : rng' = [rng EXCEPT ![r] = v]
                     ELSE UNCHANGED <<app_val, rng>>
                  /\ EnterCollective(r)
                  /\ nbarrier' = [nbarrier EXCEPT ![r] = @ + 1]
                  /\ pc' = [pc EXCEPT ![r] = "restore_key_barrier"]
    /\ UNCHANGED <<inputVars, coalesceVars, read_result, polled, got_manifest, global_keys, ki,
                   rng_state_dict, manifest, metadata, io, storage_doc, meta_writes,
                   resources, threadVars>>

\* restore: the barrier after a key returns
RestoreKeyBarrier(r) ==
    /\ pc[r] = "restore_key_barrier"
    /\ CollectiveComplete(r)
    /\ ki' = [ki EXCEPT ![r] = @ + 1]
    /\ pc' = [pc EXCEPT ![r] =
                IF ki[r] < Len(global_keys[r]) THEN "load" ELSE "restore_rng"]
    /\ UNCHANGED <<inputVars, coalesceVars, readVars, app_val, rng, seq, global_keys, nbarrier,
                   rng_state_dict, manifest, metadata, io, storageVars, resources,
                   threadVars>>

\* RestoreRngState that closes storage and event loop without loading the
\* RNGState
RestoreRngState_NotLoaded(r) ==
    /\ pc[r] = "restore_rng"
    /\ resources' = [resources EXCEPT ![r] = {}]
    /\ pc' = [pc EXCEPT ![r] = "restored"]
    /\ UNCHANGED <<inputVars, coalesceVars, readVars, app_val, rng, seq, loopVars, rng_state_dict, manifest,
                   metadata, io, storageVars, threadVars>>

\* restore: after the loop the RNGState is loaded, storage and event loop
\* are closed and restore returns
RestoreRngState(r) ==
    /\ pc[r] = "restore_rng"
    /\ LET held == rng_state_items(app_state[r]) # {}
           key == CHOOSE k \in rng_state_items(app_state[r]) : TRUE
           res == load_stateful(r, key)
       IN /\ IF held
             THEN /\ snapshot_metadata' =
                        [snapshot_metadata EXCEPT ![r] = MetadataProperty(r)]
                  /\ metadata_read' = [metadata_read EXCEPT ![r] =
                        @ \/ snapshot_metadata[r] = None]
                  /\ read_reqs' = [read_reqs EXCEPT ![r] = @ \cup res.read]
             ELSE UNCHANGED <<snapshot_metadata, metadata_read, read_reqs>>
          /\ IF held /\ res.raised
             THEN /\ pc' = [pc EXCEPT ![r] = "raised"]
                  /\ UNCHANGED <<rng, resources>>
             ELSE /\ IF held
                     THEN rng' = [rng EXCEPT ![r] = res.value]
                     ELSE UNCHANGED rng
                  /\ resources' = [resources EXCEPT ![r] = {}]
                  /\ pc' = [pc EXCEPT ![r] = "restored"]
    /\ UNCHANGED <<inputVars, coalesceVars, read_result, polled, got_manifest, app_val, seq,
                   loopVars, rng_state_dict, manifest, metadata, io, storage_doc,
                   meta_writes, threadVars>>

\* ------------------------------------------------ read_object and done

\* rank r holds a Snapshot and runs no operation on it
Idle(r) == pc[r] \in {"constructed", "returned", "wait_returned", "restored"}

\* ReadObject that projects the manifest for the rank of the caller
ReadObject_CallerRank(r, prank, k) ==
    /\ Idle(r)
    /\ MetadataProperty(r) # None
    /\ snapshot_metadata' = [snapshot_metadata EXCEPT ![r] = MetadataProperty(r)]
    /\ metadata_read' = [metadata_read EXCEPT ![r] = @ \/ snapshot_metadata[r] = None]
    /\ LET m == get_manifest_for_rank(MetadataProperty(r)[1], r)
       IN IF ~\E e \in m : e[1] = k
          THEN /\ read_result' = [read_result EXCEPT ![r] =
                        Some([rank |-> prank, key |-> k, raised |-> TRUE, value |-> 0])]
               /\ UNCHANGED <<resources, storage_path, read_reqs>>
          ELSE /\ read_result' = [read_result EXCEPT ![r] =
                        Some([rank |-> prank, key |-> k, raised |-> FALSE,
                              value |-> EntryValue(m, k, r)])]
               /\ storage_path' = [storage_path EXCEPT ![r] = snapshot_path[r]]
               /\ IF \E e \in m : e[1] = k /\ e[3] = "Primitive"
                  THEN /\ resources' = [resources EXCEPT ![r] =
                                @ \cup {"event_loop", "storage"}]
                       /\ UNCHANGED read_reqs
                  ELSE /\ read_reqs' = [read_reqs EXCEPT ![r] = @ \cup {k}]
                       /\ UNCHANGED resources
    /\ UNCHANGED <<inputVars, path, coalesced_replicated, warnings, replicated_paths,
                   snapshot_path, polled, got_manifest, app_val, rng, pc, seq,
                   loopVars,
                   rng_state_dict, manifest, metadata, io, storage_doc, meta_writes,
                   threadVars>>

\* ReadObject that issues a read request for an entry of any type
ReadObject_ReadsPrimitive(r, prank, k) ==
    /\ Idle(r)
    /\ MetadataProperty(r) # None
    /\ snapshot_metadata' = [snapshot_metadata EXCEPT ![r] = MetadataProperty(r)]
    /\ metadata_read' = [metadata_read EXCEPT ![r] = @ \/ snapshot_metadata[r] = None]
    /\ LET m == get_manifest_for_rank(MetadataProperty(r)[1], prank)
       IN IF ~\E e \in m : e[1] = k
          THEN /\ read_result' = [read_result EXCEPT ![r] =
                        Some([rank |-> prank, key |-> k, raised |-> TRUE, value |-> 0])]
               /\ UNCHANGED <<resources, storage_path, read_reqs>>
          ELSE /\ read_result' = [read_result EXCEPT ![r] =
                        Some([rank |-> prank, key |-> k, raised |-> FALSE,
                              value |-> EntryValue(m, k, prank)])]
               /\ storage_path' = [storage_path EXCEPT ![r] = snapshot_path[r]]
               /\ IF FALSE
                  THEN /\ resources' = [resources EXCEPT ![r] =
                                @ \cup {"event_loop", "storage"}]
                       /\ UNCHANGED read_reqs
                  ELSE /\ read_reqs' = [read_reqs EXCEPT ![r] = @ \cup {k}]
                       /\ UNCHANGED resources
    /\ UNCHANGED <<inputVars, path, coalesced_replicated, warnings, replicated_paths,
                   snapshot_path, polled, got_manifest, app_val, rng, pc, seq,
                   loopVars,
                   rng_state_dict, manifest, metadata, io, storage_doc, meta_writes,
                   threadVars>>

\* Snapshot.read_object of the path "<prank>/<k>": the metadata is read when
\* the Snapshot holds none, the manifest is projected for rank prank, and a
\* path absent from the projection raises; else event loop and storage are
\* opened, a primitive entry returns its value at once, and any other entry
\* is read, storage and event loop are closed and the object is returned
ReadObject(r, prank, k) ==
    /\ Idle(r)
    /\ MetadataProperty(r) # None
    /\ snapshot_metadata' = [snapshot_metadata EXCEPT ![r] = MetadataProperty(r)]
    /\ metadata_read' = [metadata_read EXCEPT ![r] = @ \/ snapshot_metadata[r] = None]
    /\ LET m == get_manifest_for_rank(MetadataProperty(r)[1], prank)
       IN IF ~\E e \in m : e[1] = k
          THEN /\ read_result' = [read_result EXCEPT ![r] =
                        Some([rank |-> prank, key |-> k, raised |-> TRUE, value |-> 0])]
               /\ UNCHANGED <<resources, storage_path, read_reqs>>
          ELSE /\ read_result' = [read_result EXCEPT ![r] =
                        Some([rank |-> prank, key |-> k, raised |-> FALSE,
                              value |-> EntryValue(m, k, prank)])]
               /\ storage_path' = [storage_path EXCEPT ![r] = snapshot_path[r]]
               /\ IF \E e \in m : e[1] = k /\ e[3] = "Primitive"
                  THEN /\ resources' = [resources EXCEPT ![r] =
                                @ \cup {"event_loop", "storage"}]
                       /\ UNCHANGED read_reqs
                  ELSE /\ read_reqs' = [read_reqs EXCEPT ![r] = @ \cup {k}]
                       /\ UNCHANGED resources
    /\ UNCHANGED <<inputVars, path, coalesced_replicated, warnings, replicated_paths,
                   snapshot_path, polled, got_manifest, app_val, rng, pc, seq,
                   loopVars,
                   rng_state_dict, manifest, metadata, io, storage_doc, meta_writes,
                   threadVars>>

\* PendingSnapshot.done: returns _done
Done(r) ==
    /\ pc[r] = "pending"
    /\ polled' = [polled EXCEPT ![r] = Some(done[r])]
    /\ UNCHANGED <<inputVars, coalesceVars, read_reqs, metadata_read, read_result,
                   got_manifest,
                   app_val, rng, pc, seq, loopVars, rng_state_dict, manifest,
                   metadata, io, storageVars, resources, threadVars>>

NextRead ==
    \E r \in Ranks : \E prank \in 0 .. NumRanks : \E k \in Keys \cup {RngKey} :
        ReadObject(r, prank, k)

NextPoll == \E r \in Ranks : Done(r)

\* ------------------------------------------------------- get_manifest

\* got_manifest[r] holds the entries of the returned mapping and what the
\* mapping shares with the manifest of the Snapshot: "nothing" (a deep
\* copy), "entries" (a shallow copy) or "mapping" (the manifest itself).

\* get_manifest that returns a shallow copy of the manifest
GetManifest_ShallowCopy(r) ==
    /\ Idle(r)
    /\ MetadataProperty(r) # None
    /\ snapshot_metadata' = [snapshot_metadata EXCEPT ![r] = MetadataProperty(r)]
    /\ metadata_read' = [metadata_read EXCEPT ![r] = @ \/ snapshot_metadata[r] = None]
    /\ got_manifest' = [got_manifest EXCEPT ![r] =
            Some([shares |-> "entries", entries |-> MetadataProperty(r)[1].manifest])]
    /\ UNCHANGED <<inputVars, coalesceVars, read_reqs, read_result, polled, app_val,
                   rng, pc, seq, loopVars, rng_state_dict, manifest, metadata, io,
                   storage_doc, meta_writes, resources, threadVars>>

\* Snapshot.get_manifest: the metadata is read when the Snapshot holds none,
\* and a deep copy of its manifest is returned
GetManifest(r) ==
    /\ Idle(r)
    /\ MetadataProperty(r) # None
    /\ snapshot_metadata' = [snapshot_metadata EXCEPT ![r] = MetadataProperty(r)]
    /\ metadata_read' = [metadata_read EXCEPT ![r] = @ \/ snapshot_metadata[r] = None]
    /\ got_manifest' = [got_manifest EXCEPT ![r] =
            Some([shares |-> "nothing", entries |-> MetadataProperty(r)[1].manifest])]
    /\ UNCHANGED <<inputVars, coalesceVars, read_reqs, read_result, polled, app_val,
                   rng, pc, seq, loopVars, rng_state_dict, manifest, metadata, io,
                   storage_doc, meta_writes, resources, threadVars>>

\* the returned mapping is still as get_manifest returned it
Untouched(r) ==
    /\ got_manifest[r] # None
    /\ snapshot_metadata[r] # None
    /\ got_manifest[r][1].entries = storage_doc[1].manifest

\* entry e with another value
OtherValue(e) == <<e[1], e[2], 1 - e[3], e[4], e[5]>>

\* the caller deletes entry e from the mapping get_manifest returned; the
\* manifest of the Snapshot loses it when the mapping is the manifest itself
DeleteReturnedEntry(r, e) ==
    /\ Untouched(r)
    /\ e \in got_manifest[r][1].entries
    /\ got_manifest' = [got_manifest EXCEPT ![r] =
            Some([@[1] EXCEPT !.entries = @ \ {e}])]
    /\ snapshot_metadata' = [snapshot_metadata EXCEPT ![r] =
            IF got_manifest[r][1].shares = "mapping"
            THEN Some([@[1] EXCEPT !.manifest = @ \ {e}])
            ELSE @]
    /\ UNCHANGED <<inputVars, coalesceVars, read_reqs, metadata_read, read_result,
                   polled, app_val, rng, pc, seq, loopVars, rng_state_dict, manifest,
                   metadata, io, storage_doc, meta_writes, resources, threadVars>>

\* the caller assigns to a field of entry e of the mapping get_manifest
\* returned; the entry of the Snapshot changes when the two are one object
SetReturnedEntry(r, e) ==
    /\ Untouched(r)
    /\ e \in got_manifest[r][1].entries
    /\ got_manifest' = [got_manifest EXCEPT ![r] =
            Some([@[1] EXCEPT !.entries = (@ \ {e}) \cup {OtherValue(e)}])]
    /\ snapshot_metadata' = [snapshot_metadata EXCEPT ![r] =
            IF got_manifest[r][1].shares \in {"entries", "mapping"}
            THEN Some([@[1] EXCEPT !.manifest = (@ \ {e}) \cup {OtherValue(e)}])
            ELSE @]
    /\ UNCHANGED <<inputVars, coalesceVars, read_reqs, metadata_read, read_result,
                   polled, app_val, rng, pc, seq, loopVars, rng_state_dict, manifest,
                   metadata, io, storage_doc, meta_writes, resources, threadVars>>

NextManifest ==
    \E r \in Ranks :
        \/ GetManifest(r)
        \/ \E e \in storage_doc[1].manifest :
              \/ DeleteReturnedEntry(r, e)
              \/ SetReturnedEntry(r, e)

NextRestore ==
    \E r \in Ranks :
        \/ Restore(r)
        \/ RestoreGatherKeys(r)
        \/ LoadStateful(r)
        \/ RestoreKeyBarrier(r)
        \/ RestoreRngState(r)

\* take / async_take up to the return of _take_impl
NextTakeImpl ==
    \E r \in Ranks :
        \/ ValidateAppState(r)
        \/ CoalescePath(r)
        \/ CoalesceReplicated(r)
        \/ PopRngState(r)
        \/ GatherKeys(r)
        \/ CaptureKey(r)
        \/ KeyBarrier(r)
        \/ RestoreRng(r)
        \/ CalculateReplicatedEntries(r)
        \/ PrepareWrites(r)
        \/ GatherManifest(r)

\* take after _take_impl
NextSyncCommit ==
    \E r \in Ranks :
        \/ SyncComplete(r)
        \/ SyncCompleteRaises(r)
        \/ CommitBarrier(r)
        \/ WriteMetadata(r)
        \/ WriteMetadataRaises(r)

NextTake == NextTakeImpl \/ NextSyncCommit

Next == NextTake \/ NextAsync \/ NextRestore

Spec == Init /\ [][Next]_vars

\* The steps that the scheduler runs whenever they are enabled: every step
\* of the main threads and of the started background threads that is not a
\* fault.  wait() is the caller's choice and is under no fairness.
Progress ==
    \E r \in Ranks :
        \/ ValidateAppState(r)
        \/ CoalescePath(r)
        \/ CoalesceReplicated(r)
        \/ PopRngState(r)
        \/ GatherKeys(r)
        \/ CaptureKey(r)
        \/ KeyBarrier(r)
        \/ RestoreRng(r)
        \/ CalculateReplicatedEntries(r)
        \/ PrepareWrites(r)
        \/ GatherManifest(r)
        \/ SyncComplete(r)
        \/ CommitBarrier(r)
        \/ WriteMetadata(r)
        \/ PendingSnapshotInit(r)
        \/ CompleteSyncComplete(r)
        \/ CompleteArrive(r)
        \/ CompleteWriteMetadata(r)
        \/ CompleteDepart(r)
        \/ CompleteExcept(r)
        \/ CompleteFinally(r)

SpecFair == Spec /\ WF_vars(Progress)

\* ------------------------------------ the key walk on every app_state

Reverse(s) == [i \in 1 .. Len(s) |-> s[Len(s) + 1 - i]]

\* app_states over every subset of the component names, registered in
\* descending order, with or without an RNGState registered last
CaptureAppStates ==
    {Reverse(sorted(S)) : S \in SUBSET Keys} \cup
    {Reverse(sorted(S)) \o <<RngKey>> : S \in SUBSET Keys}

InitCapture ==
    /\ op = "take"
    /\ app_state \in [Ranks -> CaptureAppStates]
    /\ ExampleArgs
    /\ InitRest

NextCapture == NextTake \/ NextRestore

SpecCapture == InitCapture /\ [][NextCapture]_vars

\* -------------------------------------- _gather_keys on every key list

\* every rank has entered the all_gather_object of _gather_keys in
\* _take_impl, on any app_states
InitKeys ==
    /\ op = "take"
    /\ app_state \in [Ranks -> AppStates]
    /\ app_val = [r \in Ranks |-> 0]
    /\ rng = [r \in Ranks |-> 0]
    /\ rng_before = rng
    /\ pc = [r \in Ranks |-> "gather_keys"]
    /\ seq = [r \in Ranks |-> 3]
    /\ global_keys = [r \in Ranks |-> <<>>]
    /\ ki = [r \in Ranks |-> 0]
    /\ nbarrier = [r \in Ranks |-> 0]
    /\ rng_state_dict = [r \in Ranks |->
            IF rng_state_items(app_state[r]) # {} THEN Some(rng[r]) ELSE None]
    /\ manifest = [r \in Ranks |->
            IF rng_state_items(app_state[r]) # {}
            THEN manifest_update({}, RngKey, rng[r]) ELSE {}]
    /\ metadata = [r \in Ranks |-> None]
    /\ io = [r \in Ranks |-> "none"]
    /\ storage_doc = None
    /\ meta_writes = <<>>
    /\ snapshot_metadata = [r \in Ranks |-> None]
    /\ resources = [r \in Ranks |-> {"event_loop", "storage"}]
    /\ tpc = [r \in Ranks |-> "none"]
    /\ texc = [r \in Ranks |-> "None"]
    /\ exc_info = [r \in Ranks |-> "None"]
    /\ done = [r \in Ranks |-> FALSE]
    /\ store = [arrived |-> {}, released |-> FALSE, departed |-> {},
                depart_released |-> FALSE, error |-> FALSE]
    /\ ExampleArgs
    /\ path = [r \in Ranks |-> Some(path_arg[0])]
    /\ coalesced_replicated = [r \in Ranks |-> Some({})]
    /\ warnings = [r \in Ranks |-> {}]
    /\ replicated_paths = [r \in Ranks |-> None]
    /\ storage_path = path
    /\ snapshot_path = [r \in Ranks |-> None]
    /\ read_reqs = [r \in Ranks |-> {}]
    /\ metadata_read = [r \in Ranks |-> FALSE]
    /\ read_result = [r \in Ranks |-> None]
    /\ polled = [r \in Ranks |-> None]
    /\ got_manifest = [r \in Ranks |-> None]

NextKeys == \E r \in Ranks : GatherKeys(r)

SpecKeys == InitKeys /\ [][NextKeys]_vars

\* --------------------------- the arguments and the other operations

\* take and async_take of one component per rank, every rank proposing
\* any path
InitPaths ==
    /\ op \in {"take", "async_take"}
    /\ app_state = [r \in Ranks |-> <<1>>]
    /\ path_arg \in [Ranks -> Paths]
    /\ replicated_arg = [r \in Ranks |-> {}]
    /\ ddp_keys = [r \in Ranks |-> {}]
    /\ leaf_type = [r \in Ranks |-> [k \in Keys |-> "Tensor"]]
    /\ InitRest

\* the kinds of entry a component may have in a stored snapshot
Kinds == {"per_rank", "replicated", "sharded", "primitive"}

\* the value rank q stored for component k
StoredValue(q, k) == (q + k) % 2

\* the global manifest of a snapshot taken at world size n whose component k
\* is of kind kinds[k]: a replicated entry is kept once, under rank 0, any
\* other entry under every rank
StoredManifest(n, kinds) ==
    UNION {{<<q, k, StoredValue(q, k),
              CASE kinds[k] = "sharded" -> "ShardedTensor"
                [] kinds[k] = "primitive" -> "Primitive"
                [] OTHER -> "Tensor",
              kinds[k] = "replicated">> :
                q \in IF kinds[k] = "replicated" THEN {0} ELSE 0 .. (n - 1)} :
           k \in Keys}

\* the world sizes a stored snapshot was taken at: that of the ranks that
\* open it, one rank less (when that leaves a rank) and one rank more
StoredWorldSizes == {n \in {NumRanks - 1, NumRanks, NumRanks + 1} : n >= 1}

\* every rank has constructed a Snapshot on a stored snapshot
Constructed ==
    /\ op = "restore"
    /\ path_arg = [r \in Ranks |-> "p0"]
    /\ replicated_arg = [r \in Ranks |-> {}]
    /\ ddp_keys = [r \in Ranks |-> {}]
    /\ leaf_type = [r \in Ranks |-> [k \in Keys |-> "Tensor"]]
    /\ app_val = [r \in Ranks |-> 0]
    /\ rng = [r \in Ranks |-> 0]
    /\ rng_before = rng
    /\ pc = [r \in Ranks |-> "constructed"]
    /\ seq = [r \in Ranks |-> 0]
    /\ global_keys = [r \in Ranks |-> <<>>]
    /\ ki = [r \in Ranks |-> 0]
    /\ nbarrier = [r \in Ranks |-> 0]
    /\ rng_state_dict = [r \in Ranks |-> None]
    /\ manifest = [r \in Ranks |-> {}]
    /\ metadata = [r \in Ranks |-> None]
    /\ io = [r \in Ranks |-> "none"]
    /\ meta_writes = <<>>
    /\ resources = [r \in Ranks |-> {}]
    /\ tpc = [r \in Ranks |-> "none"]
    /\ texc = [r \in Ranks |-> "None"]
    /\ exc_info = [r \in Ranks |-> "None"]
    /\ done = [r \in Ranks |-> FALSE]
    /\ store = [arrived |-> {}, released |-> FALSE, departed |-> {},
                depart_released |-> FALSE, error |-> FALSE]
    /\ snapshot_metadata = [r \in Ranks |-> None]
    /\ path = [r \in Ranks |-> None]
    /\ coalesced_replicated = [r \in Ranks |-> None]
    /\ warnings = [r \in Ranks |-> {}]
    /\ replicated_paths = [r \in Ranks |-> None]
    /\ storage_path = [r \in Ranks |-> None]
    /\ snapshot_path = [r \in Ranks |-> Some("p0")]
    /\ read_reqs = [r \in Ranks |-> {}]
    /\ metadata_read = [r \in Ranks |-> FALSE]
    /\ read_result = [r \in Ranks |-> None]
    /\ polled = [r \in Ranks |-> None]
    /\ got_manifest = [r \in Ranks |-> None]

\* app_states that fail validation, and one that passes
InvalidAppStates ==
    {<<1>>, <<1, NonStatefulKey>>, <<RngKey, 1, OtherRngKey>>}

\* take and async_take on app_states of which some fail validation
InitInvalid ==
    /\ op \in {"take", "async_take"}
    /\ app_state \in [Ranks -> InvalidAppStates]
    /\ ExampleArgs
    /\ InitRest

\* restore, on app_states of which some fail validation, of a snapshot taken
\* by as many ranks
InitInvalidRestore ==
    /\ app_state \in [Ranks -> InvalidAppStates]
    /\ storage_doc = Some([world_size |-> NumRanks,
                            manifest |-> StoredManifest(NumRanks,
                                            [k \in Keys |-> "per_rank"])])
    /\ Constructed

\* restore and read_object of a snapshot taken at any of the world sizes,
\* whose first component is of any kind
InitStored ==
    /\ app_state = [r \in Ranks |-> sorted(Keys)]
    /\ \E n \in StoredWorldSizes : \E kind \in Kinds :
          storage_doc = Some([world_size |-> n,
                              manifest |-> StoredManifest(n,
                                  [k \in Keys |-> IF k = 1 THEN kind ELSE "per_rank"])])
    /\ Constructed

InitOps == InitPaths \/ InitInvalid \/ InitInvalidRestore

\* ------------------------------------- the replicated patterns and paths

\* the patterns a rank may pass: "**", and "<key>/**" of the first and of
\* the last component
ArgPatterns == {AllPattern, KeyPattern(1), KeyPattern(NumKeys)}

\* every rank registers every component and passes any patterns; the first
\* component may be a DDP module
InitPatterns ==
    /\ app_state = [r \in Ranks |-> sorted(Keys)]
    /\ replicated_arg \in [Ranks -> SUBSET ArgPatterns]
    /\ ddp_keys \in [Ranks -> {{}, {1}}]
    /\ leaf_type = [r \in Ranks |-> [k \in Keys |-> "Tensor"]]

\* every rank passes the same patterns; a rank registers every component,
\* or all but the last, or all and an RNGState, and its first component is
\* either a tensor or a sharded tensor
InitClassify ==
    /\ app_state \in [Ranks -> {sorted(Keys), sorted(Keys \ {NumKeys}),
                                  <<RngKey>> \o sorted(Keys)}]
    /\ \E P \in SUBSET ArgPatterns : replicated_arg = [r \in Ranks |-> P]
    /\ ddp_keys = [r \in Ranks |-> {}]
    /\ leaf_type \in [Ranks -> {[k \in Keys |-> IF k = 1 THEN t ELSE "Tensor"] :
                                    t \in {"Tensor", "ShardedTensor"}}]

InitReplicated ==
    /\ op = "take"
    /\ path_arg = [r \in Ranks |-> "p0"]
    /\ InitPatterns \/ InitClassify
    /\ InitRest

SpecReplicated == InitReplicated /\ [][NextTakeImpl]_vars

NextOps == Next \/ NextPoll

SpecOps == InitOps /\ [][NextOps]_vars

\* restore and read_object of stored snapshots
NextStored == NextRestore \/ NextRead

SpecStored == InitStored /\ [][NextStored]_vars

\* get_manifest, changes to what it returned, and read_object
NextGetManifest == NextManifest \/ NextRead

\* a stored snapshot taken by as many ranks as open it
InitManifest == InitStored /\ storage_doc[1].world_size = NumRanks

SpecManifest == InitManifest /\ [][NextGetManifest]_vars

\* ================================================================ claims

\* the background thread of rank r has left its try block
ThreadLeftTry(r) == tpc[r] \in {"finally", "finished"}

\* rank 0 has issued the write of .snapshot_metadata, or is about to
MetadataWriteReached ==
    \/ meta_writes # <<>>
    \/ pc[0] = "write_metadata"
    \/ tpc[0] = "write_metadata"

\* C1: in take, rank 0 reaches the write of the metadata document only when
\* the sync_complete of every rank has returned successfully and every rank
\* has entered the barrier that follows it.
C1_MetadataAfterAllWrites ==
    (op = "take" /\ MetadataWriteReached) =>
        \A r \in Ranks :
            /\ io[r] = "ok"
            /\ pc[r] \notin {"start", "coalesce_path", "coalesce_replicated",
                             "take_impl", "gather_keys", "capture", "key_barrier",
                             "rng_restore", "calc_replicated",
                             "calc_replicated_bcast", "gather_manifest",
                             "sync_complete", "raised"} \/ (r = 0 /\ pc[r] = "raised")

C1_Witness ==
    /\ op = "take"
    /\ meta_writes = <<0>>
    /\ storage_doc # None
    /\ \A r \in Ranks : io[r] = "ok"

\* C2: in async_take every background thread runs sync_complete, arrive,
\* (rank 0) metadata write, depart in this order, so rank 0 reaches the
\* write only when every rank's sync_complete has returned successfully and
\* every rank has arrived at the store barrier.
C2_AsyncCommitOrder ==
    op = "async_take" =>
        /\ MetadataWriteReached =>
              \A r \in Ranks : io[r] = "ok" /\ r \in store.arrived
        /\ \A r \in Ranks :
              /\ r \in store.arrived => io[r] = "ok"
              /\ r \in store.departed => r \in store.arrived /\ store.released
        /\ 0 \in store.departed => storage_doc # None

C2_Witness ==
    /\ op = "async_take"
    /\ storage_doc # None
    /\ store.departed = Ranks
    /\ \A r \in Ranks : tpc[r] = "finished" /\ exc_info[r] = "None"

\* C3: when the metadata write of rank 0 fails in the background thread,
\* rank 0 reports the error on the store barrier, no other rank's depart
\* completes (each other rank fails in the barrier), and wait() raises on
\* every rank.
C3_AbortPropagation ==
    (op = "async_take" /\ texc[0] = "MetadataWriteError") =>
        /\ ThreadLeftTry(0) => store.error /\ exc_info[0] = "MetadataWriteError"
        /\ ~store.depart_released
        /\ \A r \in Ranks \ {0} :
              /\ ThreadLeftTry(r) =>
                    exc_info[r] \in {"BarrierAborted", "BarrierTimeout"}
              /\ (store.error /\ tpc[r] = "depart") =>
                    ENABLED CompleteBarrierAborted(r)
        /\ \A r \in Ranks : pc[r] # "wait_returned"

C3_Witness ==
    /\ op = "async_take"
    /\ texc[0] = "MetadataWriteError"
    /\ \A r \in Ranks : pc[r] = "wait_raised"
    /\ \A r \in Ranks \ {0} : r \in store.departed /\ exc_info[r] = "BarrierAborted"

\* C4: in async_take an exception raised in the background thread of a
\* rank is recorded in exc_info, report_error is called, and wait() raises
\* on that rank; wait() returns a Snapshot iff the thread caught none.
C4_ExceptionCaptured ==
    op = "async_take" =>
        \A r \in Ranks :
            /\ io[r] = "failed" => texc[r] = "StorageIOError"
            /\ ThreadLeftTry(r) => exc_info[r] = texc[r]
            /\ exc_info[r] # "None" => store.error
            /\ pc[r] = "wait_raised" => texc[r] # "None"
            /\ pc[r] \in {"wait_returned", "restore_gather_keys", "load",
                          "restore_key_barrier", "restore_rng", "restored"}
                  => texc[r] = "None"

C4_Witness ==
    /\ op = "async_take"
    /\ \E r, q \in Ranks :
          /\ pc[r] = "wait_raised" /\ exc_info[r] = "StorageIOError"
          /\ pc[q] = "wait_raised" /\ exc_info[q] \in {"BarrierAborted", "BarrierTimeout"}

\* C5: when the write I/O of some rank has failed, the metadata document is
\* not written (and its write is not even issued), in take and in async_take.
C5_NoMetadataAfterIOFailure ==
    (\E r \in Ranks : io[r] = "failed") =>
        /\ storage_doc = None
        /\ meta_writes = <<>>

C5_Witness ==
    /\ \E r \in Ranks : io[r] = "failed"
    /\ \E r \in Ranks : io[r] = "ok"
    /\ \A r \in Ranks : pc[r] \in {"raised", "commit_barrier"} \/ tpc[r] = "finished"

\* a fault has occurred in some background thread
AsyncFault == \E r \in Ranks : texc[r] # "None"

\* C6: a snapshot started with async_take is committed whether or not
\* wait() is called: unless a write I/O, a barrier or the metadata write
\* fails, the metadata document is eventually written.
C6_CommittedWithoutWait ==
    <>(op = "take" \/ AsyncFault \/ storage_doc # None)

C6_Witness ==
    /\ op = "async_take"
    /\ storage_doc # None
    /\ \A r \in Ranks : pc[r] = "pending" /\ done[r] /\ exc_info[r] = "None"

\* async_take has returned the PendingSnapshot on rank r
AsyncTakeReturned(r) ==
    op = "async_take" /\ pc[r] \notin
        {"start", "coalesce_path", "coalesce_replicated", "take_impl",
         "gather_keys", "capture", "key_barrier", "rng_restore",
         "calc_replicated", "calc_replicated_bcast", "gather_manifest",
         "pending_snapshot"}

\* C7: the SnapshotMetadata of an async_take is fixed once async_take has
\* returned, and the document the background thread commits is exactly that
\* metadata, whatever the caller does to its app state afterwards.
C7_ConsistentSnapshot ==
    [][/\ \A r \in Ranks :
            AsyncTakeReturned(r) => metadata[r] # None /\ metadata'[r] = metadata[r]
       /\ (op = "async_take" /\ storage_doc' # storage_doc) =>
            storage_doc' # None /\ storage_doc' = metadata[0]]_vars

C7_Witness ==
    /\ op = "async_take"
    /\ storage_doc # None
    /\ tpc[0] = "depart"
    /\ \A e \in storage_doc[1].manifest : e[2] \in Keys => app_val[e[1]] # e[3]
    /\ \E e \in storage_doc[1].manifest : e[2] \in Keys

\* the Stateful component names rank r registers (the RNGState popped)
StatefulKeys(r) == SeqToSet(WithoutRng(app_state[r]))

KeyUnion == UNION {StatefulKeys(q) : q \in Ranks}

IsStrictlySorted(s) == \A i, j \in DOMAIN s : i < j => s[i] < s[j]

\* C8: the list _gather_keys returns is sorted and duplicate-free, holds
\* exactly the union of the ranks' key lists, and is the same on every rank.
C8_GlobalKeyOrder ==
    \A r \in Ranks :
        pc[r] # "gather_keys" =>
            /\ IsStrictlySorted(global_keys[r])
            /\ SeqToSet(global_keys[r]) = KeyUnion
            /\ \A q \in Ranks : pc[q] # "gather_keys" => global_keys[q] = global_keys[r]

C8_Witness ==
    /\ \A r \in Ranks : pc[r] # "gather_keys"
    /\ \E r, q \in Ranks :
          /\ StatefulKeys(r) # {} /\ StatefulKeys(q) # {}
          /\ StatefulKeys(r) \cap StatefulKeys(q) = {}
    /\ ~IsStrictlySorted(chain(GatheredKeys))
    /\ Len(global_keys[0]) >= 2

\* the key walk rank r is in, or was last in
Walk(r) ==
    IF pc[r] \in {"load", "restore_key_barrier", "restore_rng", "restored"}
    THEN "restore" ELSE "take"

\* rank r has left the key loop of take or of restore
WalkEnded(r) ==
    pc[r] \in {"rng_restore", "calc_replicated", "calc_replicated_bcast",
               "gather_manifest", "sync_complete", "commit_barrier",
               "write_metadata", "returned", "raised", "restore_gather_keys",
               "restore_rng", "restored"}

\* C9: in take and in restore every rank walks the global key list and
\* issues one barrier after each key, whether or not it holds the key; no
\* rank starts key k+1 before every rank has finished key k, and at the end
\* of the walk every rank has issued the same number of barriers.
C9_KeyWalkInLockstep ==
    \A r \in Ranks :
        /\ pc[r] \in {"capture", "load"} =>
              /\ ki[r] \in 1 .. Len(global_keys[r])
              /\ nbarrier[r] = ki[r] - 1
              /\ ki[r] > 1 =>
                    \A q \in Ranks : Walk(q) = Walk(r) /\ nbarrier[q] >= ki[r] - 1
        /\ pc[r] \in {"key_barrier", "restore_key_barrier"} => nbarrier[r] = ki[r]
        /\ WalkEnded(r) =>
              /\ nbarrier[r] = Len(global_keys[r])
              /\ nbarrier[r] = Cardinality(KeyUnion)
        /\ pc[r] = "raised" => io[r] = "failed" \/ meta_writes # <<>>

C9_Witness ==
    /\ \A r \in Ranks : pc[r] = "restored" /\ nbarrier[r] = Len(global_keys[r])
    /\ Len(global_keys[0]) >= 2
    /\ \E r \in Ranks : KeyUnion \ StatefulKeys(r) # {}

HasRng(r) == rng_state_items(app_state[r]) # {}

\* C10: when the app_state holds an RNGState, _take_impl captures its state
\* before any other state_dict() and loads it back after the key walk, so
\* from then on the RNG state is the one take was called with.
C10_TakeLeavesRngUnchanged ==
    \A r \in Ranks :
        HasRng(r) =>
            /\ pc[r] \in {"gather_keys", "capture", "key_barrier", "rng_restore"} =>
                  rng_state_dict[r] = Some(rng_before[r])
            /\ pc[r] \in {"calc_replicated", "calc_replicated_bcast",
                          "gather_manifest", "sync_complete", "commit_barrier",
                          "write_metadata", "returned", "raised",
                          "restore_gather_keys"} =>
                  rng[r] = rng_before[r]

C10_Witness ==
    \E r, q \in Ranks :
        /\ HasRng(r) /\ StatefulKeys(r) # {}
        /\ pc[r] = "returned" /\ rng[r] = rng_before[r]
        /\ ~HasRng(q)
        /\ pc[q] = "returned" /\ rng[q] # rng_before[q]

\* C11: on restore the RNGState is loaded last: restore ends with the load
\* of the RNGState, which happens when the loop over the global keys (and so
\* the load of every other component of the rank) is over, and it leaves the
\* RNG state equal to the one take captured; nothing changes it afterwards.
C11_RngLoadedLast ==
    [][\A r \in Ranks :
          HasRng(r) =>
            /\ (pc[r] # "restored" /\ pc'[r] = "restored") =>
                  /\ pc[r] = "restore_rng"
                  /\ nbarrier[r] = Len(global_keys[r])
                  /\ ki[r] > Len(global_keys[r])
                  /\ rng_state_dict[r] # None
                  /\ rng'[r] = rng_state_dict[r][1]
            /\ pc[r] = "restored" => rng'[r] = rng[r]]_vars

C11_Witness ==
    \E r, q \in Ranks :
        /\ HasRng(r) /\ StatefulKeys(r) # {}
        /\ pc[r] = "restored" /\ rng[r] = rng_state_dict[r][1]
        /\ ~HasRng(q) /\ StatefulKeys(q) # {}
        /\ pc[q] = "restored" /\ rng[q] # rng_before[q]

\* rank r's app_state fails validation: a value that is not Stateful, or
\* more than one RNGState
InvalidAppState(r) ==
    \/ \E i \in DOMAIN app_state[r] : ~IsStateful(app_state[r][i])
    \/ Cardinality(rng_state_items(app_state[r])) > 1

\* C12: whatever paths the ranks propose, every rank uses the path of rank
\* 0: the coalesced path, the url the storage plugin is opened at and the
\* path of the returned Snapshot / PendingSnapshot all equal it; a rank whose
\* path differs logs a warning and goes on (it does not raise for it).
C12_PathCoalescing ==
    \A r \in Ranks :
        /\ path[r] # None => path[r] = Some(path_arg[0])
        /\ storage_path[r] # None => storage_path[r] = Some(path_arg[0])
        /\ snapshot_path[r] # None => snapshot_path[r] = Some(path_arg[0])
        /\ "path" \in warnings[r] <=> (path[r] # None /\ path_arg[r] # path_arg[0])
        /\ ("path" \in warnings[r] /\ pc[r] = "raised") =>
                io[r] = "failed" \/ InvalidAppState(r)

C12_Witness ==
    /\ storage_doc # None
    /\ \E r \in Ranks :
          /\ path_arg[r] # path_arg[0]
          /\ "path" \in warnings[r]
          /\ pc[r] \in {"returned", "wait_returned"}
          /\ storage_path[r] = Some(path_arg[0])
          /\ snapshot_path[r] = Some(path_arg[0])

\* the patterns rank r proposes: those it passes and those inferred from
\* its DDP modules
Proposed(r) ==
    replicated_arg[r] \cup
        (IF AllPattern \in replicated_arg[r] THEN {}
         ELSE {KeyPattern(k) : k \in ddp_keys[r] \cap SeqToSet(app_state[r])})

\* C13: the coalesced pattern set is exactly the intersection of the
\* pattern lists (given plus inferred) of all ranks: a pattern is in it iff
\* every rank proposed it, every rank obtains the same set, and a rank whose
\* own list differs from it logs a warning and goes on.
C13_ReplicationIntersection ==
    \A r \in Ranks :
        /\ coalesced_replicated[r] # None =>
              /\ \A p \in Patterns :
                    p \in coalesced_replicated[r][1] <=> \A q \in Ranks : p \in Proposed(q)
              /\ \A q \in Ranks : coalesced_replicated[q] # None =>
                    coalesced_replicated[q] = coalesced_replicated[r]
        /\ "replicated" \in warnings[r] <=>
              (coalesced_replicated[r] # None
                    /\ Proposed(r) # coalesced_replicated[r][1])
        /\ pc[r] # "raised"

C13_Witness ==
    /\ \A r \in Ranks : pc[r] = "sync_complete"
    /\ \E p \in Proposed(0) : \E q \in Ranks : p \notin Proposed(q)
    /\ \E p \in coalesced_replicated[0][1] :
            \E q \in Ranks : p \notin replicated_arg[q]
    /\ "replicated" \in warnings[0]
    /\ \E q \in Ranks : "replicated" \notin warnings[q]

\* the patterns every rank proposed
Agreed == {p \in Patterns : \A q \in Ranks : p \in Proposed(q)}

\* the path of component k exists on rank q, matches an agreed pattern and
\* its value is not sharded
ReplicatedOn(q, k) ==
    /\ k \in SeqToSet(app_state[q])
    /\ \E p \in Agreed : p = AllPattern \/ p = KeyPattern(k)
    /\ ~(k \in Keys /\ leaf_type[q][k] = "ShardedTensor")

\* _calculate_replicated_entries has returned on rank r
ReplicatedPathsReturned(r) == pc[r] \in {"gather_manifest", "sync_complete"}

\* C14: the set _calculate_replicated_entries returns is the same on every
\* rank, and a path is in it iff on every rank of the world the path exists,
\* matches one of the agreed patterns and its value is not sharded.
C14_ReplicationClassification ==
    \A r \in Ranks :
        ReplicatedPathsReturned(r) =>
            /\ replicated_paths[r] # None
            /\ \A k \in Keys \cup {RngKey} :
                  k \in replicated_paths[r][1] <=> \A q \in Ranks : ReplicatedOn(q, k)
            /\ \A q \in Ranks : ReplicatedPathsReturned(q) =>
                  replicated_paths[q] = replicated_paths[r]

C14_Witness ==
    /\ \A r \in Ranks : pc[r] = "sync_complete"
    /\ replicated_paths[0][1] # {}
    /\ \E k \in Keys :
          /\ ReplicatedOn(0, k)
          /\ \E q \in Ranks : leaf_type[q][k] = "ShardedTensor"
          /\ k \notin replicated_paths[0][1]
    /\ \E q \in Ranks : RngKey \in SeqToSet(app_state[0]) \ SeqToSet(app_state[q])

\* rank r's app_state holds a value that is not Stateful
NonStatefulValue(r) == \E i \in DOMAIN app_state[r] : ~IsStateful(app_state[r][i])

\* C15: a rank whose app_state holds a value that is not Stateful, or more
\* than one RNGState, never gets past the check in take, async_take or
\* restore: it issues no storage write and no storage read, the operation
\* never returns on it, and no metadata document is written (for a value
\* that is not Stateful, not even an event loop or a storage is opened).
C15_ValidationBeforeIO ==
    \A r \in Ranks :
        InvalidAppState(r) =>
            /\ pc[r] \in {"start", "coalesce_path", "coalesce_replicated",
                          "take_impl", "constructed", "raised"}
            /\ io[r] = "none"
            /\ read_reqs[r] = {}
            /\ ~metadata_read[r]
            /\ meta_writes = <<>>
            /\ op # "restore" => storage_doc = None
            /\ NonStatefulValue(r) =>
                  pc[r] \in {"start", "constructed", "raised"} /\ resources[r] = {}

C15_Witness ==
    /\ op = "async_take"
    /\ \E r \in Ranks :
          /\ ~NonStatefulValue(r)
          /\ InvalidAppState(r)
          /\ pc[r] = "raised"
          /\ "storage" \in resources[r]

\* no operation is running on rank r: none was started, or the last one has
\* returned or raised
Exited(r) ==
    pc[r] \in {"constructed", "returned", "raised", "restored",
               "wait_returned", "wait_raised"}

\* C16: the storage connection and the event loop an operation opened are
\* closed on every exit path: once take, async_take + wait, restore or
\* read_object has returned or raised on a rank, that rank holds no open
\* storage and no open event loop.
C16_ClosedOnEveryExit ==
    \A r \in Ranks : Exited(r) => resources[r] = {}

\* the global manifest of the stored snapshot and the world size it was
\* captured at
StoredEntries == storage_doc[1].manifest
CapturedWorldSize == storage_doc[1].world_size

\* the stored snapshot holds path k as a replicated / as a sharded entry
ReplicatedEntry(k) == \E e \in StoredEntries : e[2] = k /\ e[5]
ShardedEntry(k) == \E e \in StoredEntries : e[2] = k /\ e[4] = "ShardedTensor"

\* the ranks that own a per-rank entry for path k
PerRankOwners(k) ==
    {e[1] : e \in {x \in StoredEntries :
                     x[2] = k /\ ~x[5] /\ x[4] # "ShardedTensor"}}

\* the key restore has just loaded, or failed to load, on rank r
RestoredKey(r) == global_keys[r][ki[r]]

\* C17: whatever world size the snapshot was captured at, restore on rank r
\* and read_object for the rank of a path see every replicated and every
\* sharded entry (restore loads it, read_object returns it: for any rank
\* index, also one beyond the captured world size), and see a per-rank entry
\* only as its owning rank: the value is the owner's own, and for any other
\* rank index the entry is absent (restore and read_object raise).
C17_Elasticity ==
    \A r \in Ranks :
        /\ read_result[r] # None =>
              LET rr == read_result[r][1]
              IN IF ReplicatedEntry(rr.key) \/ ShardedEntry(rr.key)
                 THEN ~rr.raised
                 ELSE /\ ~rr.raised <=> rr.rank \in PerRankOwners(rr.key)
                      /\ ~rr.raised => rr.value = StoredValue(rr.rank, rr.key)
        /\ pc[r] = "restore_key_barrier" =>
              \/ ReplicatedEntry(RestoredKey(r)) /\ app_val[r] = StoredValue(0, RestoredKey(r))
              \/ ShardedEntry(RestoredKey(r))
              \/ /\ r \in PerRankOwners(RestoredKey(r))
                 /\ app_val[r] = StoredValue(r, RestoredKey(r))
        /\ pc[r] = "raised" =>
              /\ ~ReplicatedEntry(RestoredKey(r))
              /\ ~ShardedEntry(RestoredKey(r))
              /\ r \notin PerRankOwners(RestoredKey(r))

C17_Witness ==
    /\ CapturedWorldSize < NumRanks
    /\ \E r \in Ranks :
          /\ r >= CapturedWorldSize
          /\ pc[r] = "restore_key_barrier"
          /\ ReplicatedEntry(RestoredKey(r))
          /\ read_result[r] # None
          /\ read_result[r][1].raised
          /\ read_result[r][1].rank = r
          /\ PerRankOwners(read_result[r][1].key) # {}

\* read_object has just raised on rank r for a path absent from the manifest
ReadRaised(r) ==
    /\ read_result'[r] # read_result[r]
    /\ read_result'[r] # None
    /\ read_result'[r][1].raised

\* path k is in the manifest projected for rank prank
InProjection(prank, k) ==
    \E e \in get_manifest_for_rank(storage_doc[1], prank) : e[1] = k

\* C18 (as amended): read_object resolves the path against the manifest
\* projected for the rank encoded in the path; when the path is absent it
\* raises before opening storage for the object and before issuing any read
\* request; the only storage access is the read of the metadata document,
\* made when the Snapshot holds none; the Snapshot then holds that document
\* and is otherwise unchanged, so later calls see the same metadata.
C18_ReadObjectAbsent ==
    [][\A r \in Ranks :
        /\ (read_result'[r] # read_result[r] /\ read_result'[r] # None) =>
              (read_result'[r][1].raised <=>
                  ~InProjection(read_result'[r][1].rank, read_result'[r][1].key))
        /\ ReadRaised(r) =>
              /\ resources' = resources
              /\ read_reqs' = read_reqs
              /\ storage_path' = storage_path
              /\ snapshot_path' = snapshot_path
              /\ pc' = pc
              /\ storage_doc' = storage_doc
              /\ metadata_read'[r] # metadata_read[r] => snapshot_metadata[r] = None
              /\ snapshot_metadata'[r] = MetadataProperty(r)
              /\ \A q \in Ranks \ {r} : snapshot_metadata'[q] = snapshot_metadata[q]]_vars

C18_Witness ==
    \E r \in Ranks :
        /\ pc[r] = "constructed"
        /\ read_result[r] # None
        /\ read_result[r][1].raised
        /\ read_result[r][1].rank # r
        /\ InProjection(r, read_result[r][1].key)
        /\ resources[r] = {}
        /\ read_reqs[r] = {}
        /\ metadata_read[r]
        /\ snapshot_metadata[r] = storage_doc

\* C18 as stated: a read_object that raises for an absent path has opened no
\* storage and issued no read, and the Snapshot and its cached metadata are
\* unchanged.
C18_Original ==
    [][\A r \in Ranks :
        ReadRaised(r) =>
            /\ resources' = resources
            /\ read_reqs' = read_reqs
            /\ metadata_read' = metadata_read
            /\ snapshot_metadata' = snapshot_metadata]_vars

\* read_object has just returned on rank r the object of a primitive entry
ReadPrimitive(r) ==
    /\ read_result'[r] # read_result[r]
    /\ read_result'[r] # None
    /\ ~read_result'[r][1].raised
    /\ \E e \in StoredEntries :
          /\ e[2] = read_result'[r][1].key
          /\ e[4] = "Primitive"

\* C19: read_object of a path whose entry is a primitive returns the value
\* the manifest entry of that rank and path holds, and issues no read
\* request to storage.
C19_PrimitiveNoRead ==
    [][\A r \in Ranks :
        ReadPrimitive(r) =>
            /\ read_reqs' = read_reqs
            /\ \E e \in StoredEntries :
                  /\ e[1] = read_result'[r][1].rank
                  /\ e[2] = read_result'[r][1].key
                  /\ e[4] = "Primitive"
                  /\ e[3] = read_result'[r][1].value]_vars

C19_Witness ==
    \E r \in Ranks :
        /\ read_result[r] # None
        /\ ~read_result[r][1].raised
        /\ read_result[r][1].rank # r
        /\ \E e \in StoredEntries :
              /\ e[1] = read_result[r][1].rank
              /\ e[2] = read_result[r][1].key
              /\ e[4] = "Primitive"
              /\ e[3] = read_result[r][1].value
              /\ e[3] # StoredValue(r, e[2])
        /\ read_reqs[r] = {}
        /\ pc[r] = "constructed"

\* rank r holds a PendingSnapshot
HasPendingSnapshot(r) == pc[r] \in {"pending", "wait_returned", "wait_raised"}

\* C20: done() can be called whenever the caller holds the PendingSnapshot,
\* whatever the background thread is doing, and returns _done without
\* changing anything else; _done is False from the creation of the
\* PendingSnapshot until the thread has gone through its commit sequence or
\* its exception handler and has closed storage and event loop, and once
\* True it stays True.
C20_DonePoll ==
    /\ [](\A r \in Ranks :
            /\ pc[r] = "pending" => ENABLED Done(r)
            /\ HasPendingSnapshot(r) =>
                  /\ done[r] <=> tpc[r] = "finished"
                  /\ done[r] => resources[r] = {}
            /\ polled[r] = Some(TRUE) => done[r])
    /\ [][\A r \in Ranks :
            /\ done[r] => done'[r]
            /\ polled'[r] # polled[r] =>
                  /\ polled'[r] = Some(done[r])
                  /\ UNCHANGED <<pc, tpc, done, resources, store, storage_doc>>]_vars

C20_Witness ==
    \E r, q \in Ranks :
        /\ pc[r] = "pending"
        /\ polled[r] = Some(TRUE)
        /\ resources[r] = {}
        /\ pc[q] = "pending"
        /\ polled[q] = Some(FALSE)
        /\ tpc[q] \in {"arrive", "depart", "write_metadata", "except"}

\* C21: whatever the caller does to the mapping get_manifest returned, or to
\* its entries, the manifest held by the Snapshot stays the committed one:
\* the cached metadata is the stored document, and what a later read_object
\* returns is decided by the committed manifest.
C21_GetManifestCopy ==
    \A r \in Ranks :
        /\ snapshot_metadata[r] # None => snapshot_metadata[r] = storage_doc
        /\ read_result[r] # None =>
              LET rr == read_result[r][1]
              IN /\ rr.raised <=> ~InProjection(rr.rank, rr.key)
                 /\ ~rr.raised =>
                       \E e \in StoredEntries : e[2] = rr.key /\ e[3] = rr.value

C21_Witness ==
    \E r \in Ranks :
        /\ got_manifest[r] # None
        /\ \E e \in StoredEntries :
              /\ OtherValue(e) \in got_manifest[r][1].entries
              /\ e \notin got_manifest[r][1].entries
              /\ read_result[r] # None
              /\ read_result[r][1].key = e[2]
              /\ read_result[r][1].rank = e[1]
              /\ read_result[r][1].value = e[3]
              /\ ~read_result[r][1].raised
        /\ snapshot_metadata[r] = storage_doc

\* C22: in one take or async_take the write of .snapshot_metadata is issued
\* by rank 0 only and at most once: the writes issued so far are none, or
\* the one of rank 0; no other rank is ever at the write.
C22_LeaderWritesOnce ==
    /\ meta_writes \in {<<>>, <<0>>}
    /\ \A r \in Ranks \ {0} : pc[r] # "write_metadata" /\ tpc[r] # "write_metadata"

C22_Witness ==
    /\ meta_writes = <<0>>
    /\ storage_doc # None
    /\ \A r \in Ranks : pc[r] \in {"returned", "wait_returned"}
    /\ op = "take"

\* the background thread of rank r takes a step
ThreadStep(r) == tpc[r] \notin {"none", "finished"} /\ tpc'[r] # tpc[r]

\* C23: no step of the background thread, from its start to its end, enters
\* a process-group collective or moves the main thread: the collective
\* counters of all ranks and the positions of all main threads are
\* unchanged by it; what it shares with the other ranks is the store.
C23_ThreadNoCollective ==
    [][\A r \in Ranks : ThreadStep(r) => seq' = seq /\ pc' = pc]_vars

C23_Witness ==
    \E r, q \in Ranks :
        /\ pc[r] = "restore_gather_keys"
        /\ ~CollectiveComplete(r)
        /\ pc[q] = "pending"
        /\ tpc[q] \in {"depart", "finally"}
        /\ store.arrived = Ranks

\* the depart of rank r's background thread has returned
Departed(r) == tpc[r] \in {"finally", "finished"} /\ texc[r] = "None"

\* C24: when wait() has returned a Snapshot on a rank, the metadata write of
\* rank 0 has completed; and the depart of a rank other than 0 has returned
\* only if rank 0 has written the metadata and entered depart.
C24_WaitReturnsAfterCommit ==
    \A r \in Ranks :
        /\ (op = "async_take" /\ pc[r] = "wait_returned") =>
              storage_doc # None /\ meta_writes = <<0>>
        /\ (r # 0 /\ Departed(r)) =>
              /\ storage_doc # None
              /\ 0 \in store.departed

C24_Witness ==
    \E r \in Ranks \ {0} :
        /\ op = "async_take"
        /\ pc[r] = "wait_returned"
        /\ storage_doc # None
        /\ tpc[0] = "finally"
        /\ pc[0] = "pending"

\* C25: when synchronous take has returned on a rank, leader or not, the
\* metadata document has been written: the snapshot is readable from
\* storage by that rank.
C25_TakeReturnsAfterCommit ==
    \A r \in Ranks :
        (op = "take" /\ pc[r] = "returned") => storage_doc # None

\* C26: in async_take, when wait() has raised on some rank the metadata
\* document of that snapshot was not written: a failure reported to a
\* caller means the snapshot is not committed.
C26_WaitRaisesNotCommitted ==
    \A r \in Ranks : pc[r] = "wait_raised" => storage_doc = None

\* C27: when synchronous take has raised on a rank, the take of every other
\* rank terminates as well: it returns or raises, and does not wait forever
\* in a collective the failed rank never enters.
C27_TakeTerminatesOnFailure ==
    \A r \in Ranks :
        (op = "take" /\ pc[r] = "raised") ~>
            (\A q \in Ranks : pc[q] \notin
                {"start", "coalesce_path", "coalesce_replicated", "take_impl",
                 "gather_keys", "capture", "key_barrier", "rng_restore",
                 "calc_replicated", "calc_replicated_bcast", "prepare_writes",
                 "gather_manifest", "sync_complete", "commit_barrier",
                 "write_metadata"})

\* C28: while restore loads component k on a rank, _load_stateful issues
\* read requests only for entries whose path lies under k: the entries of
\* the other components in the rank's projected manifest are not read.
C28_LoadReadsOwnEntries ==
    [][\A r \in Ranks :
        pc[r] = "load" => (read_reqs'[r] \ read_reqs[r]) \subseteq {RestoredKey(r)}]_vars

\* C29: take, async_take and restore leave the caller's app_state as it
\* was: no step changes the mapping, and a rank that has popped and captured
\* its RNGState still has the RNGState key in the caller's mapping, at its
\* place, after the operation has returned.
C29_AppStateUnchanged ==
    /\ [][app_state' = app_state]_vars
    /\ [](\A r \in Ranks :
            rng_state_dict[r] # None =>
                app_state[r] \in ExampleAppStates(r) /\ app_state[r][1] = RngKey)

C29_Witness ==
    \E r \in Ranks :
        /\ pc[r] = "restored"
        /\ rng_state_dict[r] # None
        /\ app_state[r][1] = RngKey
        /\ Len(app_state[r]) > 1

====
